---- MODULE Spec2Model ----
(***************************************************************************)
(* A model of github.com/StevenACoffman/anotherr/errors: the chain walker  *)
(* (UnwrapOnce, UnwrapAll, Is), the special-case registry and the format   *)
(* engine of errbase/format_error.go (formatRecursive, Write, detail,      *)
(* collectEntry, ElideSharedStackTraceSuffix, formatSingleLineOutput,      *)
(* formatEntries).                                                         *)
(*                                                                         *)
(* Text is a sequence of bytes; a byte is a one-character string.  The     *)
(* result of a %d, %T or frame conversion is kept as one element (a        *)
(* number or a name printed as a unit).                                    *)
(***************************************************************************)
EXTENDS Naturals, Integers, Sequences, FiniteSets, TLC

VARIABLES
    heap,          \* address -> error object (the links of the chains)
    err,           \* the error handed to the operation under study (0: nil)
    reference,     \* the reference error handed to Is (0: nil)
    specialCases,  \* the registry: the slice header the package variable holds
    arrays,        \* the backing arrays of the registry slice
    rs,            \* render id -> render state (one `state` per FormatError call)
    verbs,         \* render id -> the verb and flags of the call
    pc,            \* render id -> position of the call
    callStack,     \* render id -> pending formatRecursive frames (innermost call last)
    out,           \* render id -> what was written to the caller's fmt.State
    reg,           \* registering goroutine -> its position and locals
    elide,         \* the ElideSharedStackTraceSuffix call under study
    walk           \* the chain-walker call under study (Is, Cause)

vars == <<heap, err, reference, specialCases, arrays, rs, verbs, pc, callStack,
          out, reg, elide, walk>>

(***************************************************************************)
(* Bounds of the model.                                                    *)
(***************************************************************************)
MaxChain == 3      \* links in a rendered chain
MaxStack == 3      \* frames in a captured stack (ElideSharedStackTraceSuffix)
MaxWalk == 3       \* links in a chain handed to Is / Cause

NIL == 0
NL == "\n"

(***************************************************************************)
(* Text helpers.                                                           *)
(***************************************************************************)
RECURSIVE Repeat(_, _)
Repeat(t, n) == IF n <= 0 THEN <<>> ELSE t \o Repeat(t, n - 1)

HasSuffix(s, suffix) ==
    /\ Len(suffix) <= Len(s)
    /\ SubSeq(s, Len(s) - Len(suffix) + 1, Len(s)) = suffix

RECURSIVE ReplaceAll(_, _, _)
\* strings.ReplaceAll for a one-byte old string
ReplaceAll(s, old, new) ==
    IF s = <<>> THEN <<>>
    ELSE (IF Head(s) = old THEN new ELSE <<Head(s)>>) \o ReplaceAll(Tail(s), old, new)

RECURSIVE Join(_, _)
\* strings.Join
Join(parts, sep) ==
    IF parts = <<>> THEN <<>>
    ELSE IF Len(parts) = 1 THEN parts[1]
    ELSE parts[1] \o sep \o Join(Tail(parts), sep)

ColonSpace == <<":", " ">>

(***************************************************************************)
(* Stack traces.  A frame is a program location; only its identity matters *)
(* to the de-duplication, its text to the rendering.                       *)
(***************************************************************************)
Frames == { [fn |-> "main.load", file |-> "/src/main.go", line |-> 10],
            [fn |-> "main.main", file |-> "/src/main.go", line |-> 37],
            [fn |-> "runtime.main", file |-> "/go/proc.go", line |-> 225] }

StacksUpTo(n) == UNION { [1..k -> Frames] : k \in 0..n }

\* The loop of ElideSharedStackTraceSuffix, on Go's 0-based indices i and j:
\* it stops at the first pair that differs, or when i or j reaches 0.
RECURSIVE ElideLoop(_, _, _, _)
ElideLoop(prevStack, newStack, i, j) ==
    IF i > 0 /\ j > 0
    THEN IF newStack[i + 1] # prevStack[j + 1]
         THEN i
         ELSE ElideLoop(prevStack, newStack, i - 1, j - 1)
    ELSE i

\* ElideSharedStackTraceSuffix without the "keep at least one entry" step.
ElideNoKeepOne(prevStack, newStack) ==
    IF Len(prevStack) = 0 \/ Len(newStack) = 0
    THEN [stack |-> newStack, elided |-> FALSE]
    ELSE LET i == ElideLoop(prevStack, newStack, Len(newStack) - 1, Len(prevStack) - 1)
         IN [stack |-> SubSeq(newStack, 1, i), elided |-> i < Len(newStack) - 1]

\* ElideSharedStackTraceSuffix(prevStack, newStack) (StackTrace, bool);
\* newStack[:i] is SubSeq(newStack, 1, i).
ElideSharedStackTraceSuffix(prevStack, newStack) ==
    IF Len(prevStack) = 0 THEN [stack |-> newStack, elided |-> FALSE]
    ELSE IF Len(newStack) = 0 THEN [stack |-> newStack, elided |-> FALSE]
    ELSE LET i0 == ElideLoop(prevStack, newStack, Len(newStack) - 1, Len(prevStack) - 1)
             i == IF i0 = 0 THEN 1 ELSE i0
         IN [stack |-> SubSeq(newStack, 1, i), elided |-> i < Len(newStack) - 1]


(***************************************************************************)
(* Error values.  An error is the address of an object of the heap, or NIL.*)
(* The concrete types of a link and the capabilities each implements:      *)
(*   wrapper (Cause/Unwrap), errbase.Formatter (FormatError), fmt.Formatter*)
(*   (Format), StackTraceProvider (StackTrace), Is(error) bool.            *)
(***************************************************************************)
TLeafError == "*errutil.leafError"
TErrorString == "*errors.errorString"
TErrorKind == "errors.errorKind"
TWithPrefix == "*errutil.withPrefix"
TWithNewMessage == "*errutil.withNewMessage"
TWithStack == "*withstack.withStack"
TWithFields == "*errors.withFields"
TKhanError == "*errors.khanError"
TFormatter == "*ext.formatterError"   \* a type of a client package with FormatError
TIsError == "*ext.isError"            \* a type of a client package with Is(error) bool

\* Types with a Cause()/Unwrap() method.
IsWrapperType(t) ==
    t \in {TWithPrefix, TWithNewMessage, TWithStack, TWithFields, TKhanError,
           TFormatter, TIsError}

\* Types with a Format(fmt.State, rune) method.
HasFormatMethod(t) ==
    t \in {TLeafError, TWithPrefix, TWithNewMessage, TWithStack, TWithFields, TKhanError}

\* Types with a FormatError(Printer) error method; the types of this
\* repository have SafeFormatError instead, which formatRecursive never calls.
HasFormatErrorMethod(t) == t = TFormatter

\* Types with a StackTrace() method (the embedded *stack).
HasStackTraceMethod(t) == t \in {TWithStack, TWithFields, TKhanError}

\* Types whose values are compared by content, not by address.
IsValueType(t) == t = TErrorKind

EmptyObj ==
    [typ |-> TErrorString, msg |-> <<>>, detail |-> <<>>, retNil |-> FALSE,
     cause |-> NIL, stack |-> <<>>, matches |-> {}]

\* errbase.UnwrapOnce
UnwrapOnce(e) ==
    IF e = NIL THEN NIL
    ELSE IF IsWrapperType(heap[e].typ) THEN heap[e].cause
    ELSE NIL

\* errbase.UnwrapAll
RECURSIVE UnwrapAll(_)
UnwrapAll(e) ==
    IF UnwrapOnce(e) # NIL THEN UnwrapAll(UnwrapOnce(e)) ELSE e

\* Cause with a single unwrapping step in place of UnwrapAll.
CauseOneStep(e) == IF UnwrapOnce(e) # NIL THEN UnwrapOnce(e) ELSE e

\* errors.Cause
Cause(e) == UnwrapAll(e)

\* equal: Go's == on two non-nil error interface values
equal(a, b) ==
    \/ a = b
    \/ /\ a # NIL /\ b # NIL
       /\ IsValueType(heap[a].typ)
       /\ heap[a].typ = heap[b].typ
       /\ heap[a].msg = heap[b].msg

\* tryDelegateToIsMethod
tryDelegateToIsMethod(c, ref) ==
    heap[c].typ = TIsError /\ ref \in heap[c].matches

RECURSIVE IsLoop(_, _)
IsLoop(c, ref) ==
    IF c = NIL THEN FALSE
    ELSE IF equal(c, ref) THEN TRUE
    ELSE IF tryDelegateToIsMethod(c, ref) THEN TRUE
    ELSE IsLoop(UnwrapOnce(c), ref)

\* Is that looks at the outermost link only.
IsOutermostOnly(e, ref) ==
    IF ref = NIL THEN e = NIL
    ELSE e # NIL /\ (equal(e, ref) \/ tryDelegateToIsMethod(e, ref))

\* errors.Is
Is(e, ref) ==
    IF ref = NIL THEN e = NIL
    ELSE IsLoop(e, ref)

\* The links of the chain of e, outermost first, as addresses.
RECURSIVE ChainOf(_)
ChainOf(e) == IF e = NIL THEN <<>> ELSE <<e>> \o ChainOf(UnwrapOnce(e))


(***************************************************************************)
(* The special-case registry: a Go slice (header and backing array) held   *)
(* in a package variable.  A handler is described by what it does when     *)
(* called: it prints pre, then either declines or prints text and accepts, *)
(* returning its cause or nil.                                             *)
(***************************************************************************)
NilSlice == [arr |-> 0, len |-> 0, cap |-> 0]

\* The elements a `range` over slice header h visits.
SliceElems(h) == IF h.len = 0 THEN <<>> ELSE SubSeq(arrays[h.arr], 1, h.len)

Handler(n, pre, handled, text, nilNext) ==
    [name |-> n, pre |-> pre, handled |-> handled, text |-> text, nilNext |-> nilNext]

(***************************************************************************)
(* The render state (type state) and its printer.                          *)
(***************************************************************************)
detailSep == <<NL, " ", " ", "|", " ">>

Flags(verb, plus, sharp) == [verb |-> verb, plus |-> plus, sharp |-> sharp]

\* p := state{State: s}
NewState(fl) ==
    [State |-> fl, entries |-> <<>>, headBuf |-> <<>>, lastStack |-> <<>>,
     finalBuf |-> <<>>, buf |-> <<>>, needNewline |-> 0, hasDetail |-> FALSE,
     notEmpty |-> FALSE, needSpace |-> FALSE, wantDetail |-> FALSE,
     multiLine |-> FALSE]

\* switchOver that leaves the text where it is.
switchOverNever(st) == st

\* state.switchOver
switchOver(st) ==
    IF st.hasDetail THEN st
    ELSE [st EXCEPT !.headBuf = st.buf, !.buf = <<>>, !.notEmpty = FALSE,
                    !.hasDetail = TRUE]

\* detail that does not look at wantDetail.
detailInAnyMode(st) ==
    [st |-> switchOver(IF st.notEmpty THEN [st EXCEPT !.needNewline = 1] ELSE st),
     ret |-> TRUE]

\* state.detail / printer.Detail: the new state and the value returned
detail(st) ==
    IF ~st.wantDetail THEN [st |-> st, ret |-> FALSE]
    ELSE [st |-> switchOver(IF st.notEmpty THEN [st EXCEPT !.needNewline = 1] ELSE st),
          ret |-> TRUE]

\* The loop of state.Write over b, at 1-based index i, with k the 1-based
\* index of the first byte not yet flushed (Go's k + 1).
RECURSIVE WriteLoop(_, _, _, _)
WriteLoop(st, b, i, k) ==
    IF i > Len(b) THEN [st EXCEPT !.buf = @ \o SubSeq(b, k, Len(b))]
    ELSE IF b[i] = NL
    THEN LET s1 == [st EXCEPT !.buf = @ \o SubSeq(b, k, i - 1),
                              !.needNewline = @ + 1,
                              !.needSpace = FALSE,
                              !.multiLine = TRUE]
             s2 == IF s1.wantDetail THEN switchOver(s1) ELSE s1
         IN WriteLoop(s2, b, i + 1, i + 1)
    ELSE LET sep == IF st.wantDetail THEN detailSep ELSE <<NL>>
             s1 == IF st.needNewline > 0 /\ st.notEmpty
                   THEN [st EXCEPT
                           !.buf = @ \o Repeat(SubSeq(detailSep, 1, Len(sep) - 1),
                                               st.needNewline - 1) \o sep,
                           !.needNewline = 0,
                           !.needSpace = FALSE]
                   ELSE IF st.needSpace
                   THEN [st EXCEPT !.buf = @ \o <<" ">>, !.needSpace = FALSE]
                   ELSE st
         IN WriteLoop([s1 EXCEPT !.notEmpty = TRUE], b, i + 1, k)

\* Write that copies every byte, newlines included, as it comes.
WriteCopyAll(st, b) ==
    IF Len(b) = 0 THEN st ELSE [st EXCEPT !.buf = @ \o b, !.notEmpty = TRUE]

\* state.Write
Write(st, b) == IF Len(b) = 0 THEN st ELSE WriteLoop(st, b, 1, 1)

\* printer.Print of one string: enhanceArgs leaves lastStack alone, and
\* fmt.Fprint writes the string to the state.
PrinterPrint(st, text) == Write(st, text)

\* The elide-short loops flagging no entry.
ElideShortNone(st) == st

\* the loops "for i := range s.entries { s.entries[i].elideShort = true }"
ElideShortAll(st) ==
    [st EXCEPT !.entries = [i \in 1..Len(st.entries) |->
                              [st.entries[i] EXCEPT !.elideShort = TRUE]]]

\* state.collectEntry
collectEntry(st, e) ==
    LET entry == [err |-> e, head |-> <<>>, details |-> <<>>, stackTrace |-> <<>>,
                  hasStack |-> FALSE, elideShort |-> FALSE,
                  elidedStackTrace |-> FALSE]
    IN IF st.wantDetail
       THEN IF st.hasDetail
            THEN [entry EXCEPT !.head = st.headBuf, !.details = st.buf]
            ELSE [entry EXCEPT !.head = st.buf]
       ELSE LET h0 == st.headBuf
                h1 == IF /\ Len(h0) > 0 /\ h0[Len(h0)] # NL
                         /\ Len(st.buf) > 0 /\ st.buf[1] # NL
                      THEN h0 \o <<NL>> ELSE h0
            IN [entry EXCEPT !.head = h1 \o st.buf]


(***************************************************************************)
(* Projection of the entries: formatSingleLineOutput, printEntry,          *)
(* formatEntries.                                                          *)
(***************************************************************************)
\* The loop body of formatSingleLineOutput with the separator written
\* whenever the output so far is non-empty.
singleLineEntrySepAlways(st, entry) ==
    IF entry.elideShort THEN st
    ELSE LET s1 == IF Len(st.finalBuf) > 0
                   THEN [st EXCEPT !.finalBuf = @ \o ColonSpace] ELSE st
         IN [s1 EXCEPT !.finalBuf = @ \o entry.head]

\* The loop body of formatSingleLineOutput for one entry.
singleLineEntry(st, entry) ==
    IF entry.elideShort THEN st
    ELSE LET s1 == IF Len(st.finalBuf) > 0 /\ Len(entry.head) > 0
                   THEN [st EXCEPT !.finalBuf = @ \o ColonSpace] ELSE st
         IN IF Len(entry.head) = 0 THEN s1
            ELSE [s1 EXCEPT !.finalBuf = @ \o entry.head]

RECURSIVE singleLineLoop(_, _)
singleLineLoop(st, i) ==
    IF i < 1 THEN st
    ELSE singleLineLoop(singleLineEntry(st, st.entries[i]), i - 1)

\* state.formatSingleLineOutput
formatSingleLineOutput(st) == singleLineLoop(st, Len(st.entries))

\* fmt.Sprintf("%+v", stackTrace): per frame "\n", the function, "\n\t",
\* file:line (the Format of pkg/errors' StackTrace and Frame).
RECURSIVE StackText(_)
StackText(stack) ==
    IF stack = <<>> THEN <<>>
    ELSE <<NL, Head(stack).fn, NL, "\t", Head(stack).file, ":", ToString(Head(stack).line)>>
         \o StackText(Tail(stack))

StackTraceHeader == <<NL, " ", " ", "-- stack trace:">>
RepeatedMarker == <<"[...repeated from below...]">>

\* What state.printEntry appends to finalBuf.
printEntryText(entry) ==
    LET h == IF Len(entry.head) > 0
             THEN (IF entry.head[1] # NL THEN <<" ">> ELSE <<>>) \o entry.head
             ELSE <<>>
        d == IF Len(entry.details) > 0
             THEN (IF Len(entry.head) = 0 /\ entry.details[1] # NL
                   THEN <<" ">> ELSE <<>>) \o entry.details
             ELSE <<>>
        t == IF entry.hasStack
             THEN StackTraceHeader
                  \o ReplaceAll(StackText(entry.stackTrace), NL, detailSep)
                  \o (IF entry.elidedStackTrace
                      THEN detailSep \o RepeatedMarker ELSE <<>>)
             ELSE <<>>
    IN h \o d \o t

\* state.printEntry
printEntry(st, entry) == [st EXCEPT !.finalBuf = @ \o printEntryText(entry)]

\* The index of the entry printed under (j), for n entries, were "Wraps:"
\* items taken from the leaf upwards.
entryOfItemLeafFirst(n, j) == IF j = 1 THEN n ELSE j - 1

\* The index of the entry printed under (j), for n entries: the loops of
\* formatEntries run i from len-1 down to 0 (here n down to 1), j from 1 up.
entryOfItem(n, j) == n - j + 1

FirstLabel == <<NL, "(", "1", ")">>
WrapsLabel(j) == <<NL, "Wraps: ", "(", ToString(j), ")">>
TypesLabel == <<NL, "Error types:">>
TypePair(j, t) == <<" ", "(", ToString(j), ")", " ", t>>

RECURSIVE wrapsLoop(_, _)
wrapsLoop(st, j) ==
    IF j > Len(st.entries) THEN st
    ELSE wrapsLoop(printEntry([st EXCEPT !.finalBuf = @ \o WrapsLabel(j)],
                              st.entries[entryOfItem(Len(st.entries), j)]), j + 1)

RECURSIVE typesLoop(_, _)
typesLoop(st, j) ==
    IF j > Len(st.entries) THEN st
    ELSE typesLoop([st EXCEPT !.finalBuf = @ \o
                      TypePair(j, heap[st.entries[entryOfItem(Len(st.entries), j)].err].typ)],
                   j + 1)

\* state.formatEntries
formatEntries(st) ==
    LET s1 == formatSingleLineOutput(st)
        s2 == [s1 EXCEPT !.finalBuf = @ \o FirstLabel]
        s3 == printEntry(s2, s2.entries[entryOfItem(Len(s2.entries), 1)])
        s4 == wrapsLoop(s3, 2)
        s5 == [s4 EXCEPT !.finalBuf = @ \o TypesLabel]
    IN typesLoop(s5, 1)


(***************************************************************************)
(* Traversal: formatRecursive and what it calls.                           *)
(*                                                                         *)
(* Error() of a withPrefix formats its cause with %v, which runs the       *)
(* engine on the cause's chain, and the engine calls Error() on the links  *)
(* it meets (formatSimple).  Both calls go down the chain.  The Error()    *)
(* texts are therefore computed from the leaf upwards into a table et      *)
(* (address -> text), and the engine's operators read the table.           *)
(***************************************************************************)
\* extractPrefix that cuts the cause's text only and keeps the separator.
extractPrefixKeepSep(e, cause, et) ==
    IF HasSuffix(et[e], et[cause])
    THEN SubSeq(et[e], 1, Len(et[e]) - Len(et[cause]))
    ELSE <<>>

\* extractPrefix
extractPrefix(e, cause, et) ==
    LET causeSuffix == et[cause]
        errMsg == et[e]
    IN IF HasSuffix(errMsg, causeSuffix)
       THEN LET prefix == SubSeq(errMsg, 1, Len(errMsg) - Len(causeSuffix))
            IN IF HasSuffix(prefix, ColonSpace)
               THEN SubSeq(prefix, 1, Len(prefix) - 2)
               ELSE <<>>
       ELSE <<>>

\* formatSimple that takes whatever precedes the cause's text as the prefix.
formatSimpleAnySuffix(st, e, cause, et) ==
    LET pref == IF cause # NIL THEN extractPrefixKeepSep(e, cause, et) ELSE et[e]
    IN IF Len(pref) > 0 THEN Write(st, pref) ELSE st

\* state.formatSimple
formatSimple(st, e, cause, et) ==
    LET pref == IF cause # NIL THEN extractPrefix(e, cause, et) ELSE et[e]
    IN IF Len(pref) > 0 THEN Write(st, pref) ELSE st

\* The loop over specialCases of formatRecursive, from the i-th handler of
\* the list the range statement read.
RECURSIVE runSpecialCases(_, _, _, _)
runSpecialCases(st, list, cause, i) ==
    IF i > Len(list) THEN [st |-> st, printDone |-> FALSE]
    ELSE LET fn == list[i]
             s1 == PrinterPrint(st, fn.pre)
         IN IF fn.handled
            THEN LET s2 == PrinterPrint(s1, fn.text)
                     desiredShortening == IF fn.nilNext THEN NIL ELSE cause
                 IN [st |-> IF desiredShortening = NIL THEN ElideShortAll(s2)
                            ELSE s2,
                     printDone |-> TRUE]
            ELSE runSpecialCases(s1, list, cause, i + 1)

\* The FormatError method of the client type: the message, then the detail
\* behind Detail(); it returns nil when told to, or its cause.
callFormatError(st, e) ==
    LET o == heap[e]
        s1 == PrinterPrint(st, o.msg)
        d == IF o.detail # <<>> THEN detail(s1) ELSE [st |-> s1, ret |-> FALSE]
        s2 == IF d.ret THEN PrinterPrint(d.st, o.detail) ELSE d.st
        next == IF o.retNil THEN NIL ELSE o.cause
    IN IF next = NIL THEN ElideShortAll(s2) ELSE s2

\* The dispatch of formatRecursive when no special case took the link: the
\* new state and seenTrace.  formatted is what v.Format(s, 'v') writes to s.
dispatchByType(st, e, cause, isOutermost, et, formatted) ==
    LET t == heap[e].typ IN
    IF HasFormatErrorMethod(t)
    THEN [st |-> callFormatError(st, e), seenTrace |-> FALSE]
    ELSE IF HasFormatMethod(t)
    THEN IF ~isOutermost /\ cause = NIL
         THEN LET s1 == Write(st, formatted)
              IN IF HasStackTraceMethod(t)
                 THEN [st |-> [s1 EXCEPT !.lastStack = heap[e].stack],
                       seenTrace |-> TRUE]
                 ELSE [st |-> s1, seenTrace |-> FALSE]
         ELSE [st |-> formatSimple(st, e, cause, et), seenTrace |-> FALSE]
    ELSE [st |-> formatSimple(st, e, cause, et), seenTrace |-> FALSE]

\* The body of formatRecursive after the recursive call has returned.
formatLinkCore(st, e, isOutermost, withDetail, et, formatted) ==
    LET cause == UnwrapOnce(e)
        s0 == [st EXCEPT !.wantDetail = withDetail, !.needSpace = FALSE,
                         !.needNewline = 0, !.multiLine = FALSE,
                         !.notEmpty = FALSE, !.hasDetail = FALSE,
                         !.headBuf = <<>>]
        sc == runSpecialCases(s0, SliceElems(specialCases), cause, 1)
        dp == IF sc.printDone THEN [st |-> sc.st, seenTrace |-> FALSE]
              ELSE dispatchByType(sc.st, e, cause, isOutermost, et, formatted)
        s1 == dp.st
        entry == collectEntry(s1, e)
        withTrace == ~dp.seenTrace /\ HasStackTraceMethod(heap[e].typ)
        el == ElideSharedStackTraceSuffix(s1.lastStack, heap[e].stack)
        entry2 == IF withTrace
                  THEN [entry EXCEPT !.stackTrace = el.stack, !.hasStack = TRUE,
                                     !.elidedStackTrace = el.elided]
                  ELSE entry
    IN [s1 EXCEPT !.lastStack = IF withTrace THEN el.stack ELSE @,
                  !.entries = Append(@, entry2),
                  !.buf = <<>>]

\* strconv-style quoting of %q
RECURSIVE QuoteBytes(_)
QuoteBytes(t) ==
    IF t = <<>> THEN <<>>
    ELSE (CASE Head(t) = NL -> <<"\\", "n">>
            [] Head(t) = "\t" -> <<"\\", "t">>
            [] Head(t) = "\"" -> <<"\\", "\"">>
            [] OTHER -> <<Head(t)>>) \o QuoteBytes(Tail(t))

\* %x / %X of a string: the hex digits of one byte, kept as one element
HexBytes(t, verb) == [i \in 1..Len(t) |-> "%" \o verb \o "(" \o t[i] \o ")"]

\* state.finishDisplay: what reaches the caller's fmt.State (no width, no
\* precision)
finishDisplay(st, verb) ==
    CASE verb \in {"v", "s"} -> st.finalBuf
      [] verb = "q" -> <<"\"">> \o QuoteBytes(st.finalBuf) \o <<"\"">>
      [] OTHER -> HexBytes(st.finalBuf, verb)

IsDetailed(fl) == fl.verb = "v" /\ fl.plus /\ ~fl.sharp
IsSingleLine(fl) ==
    /\ ~IsDetailed(fl)
    /\ ~(fl.verb = "v" /\ fl.sharp)
    /\ fl.verb \in {"s", "v", "x", "X", "q"}

\* formatErrorInternal, case %#v: the Go-syntax dump of the outermost value,
\* written without a call of formatRecursive
GoSyntaxText(e) == IF e = NIL THEN <<"<nil>">> ELSE <<"&", heap[e].typ, "{...}">>

\* The placeholder with a nil error printed as a Go-syntax nil.
UnknownVerbTextPlainNil(e, verb) ==
    <<"%!", verb, "(">> \o (IF e # NIL THEN <<heap[e].typ>> ELSE <<"nil">>) \o <<")">>

\* formatErrorInternal, default case: the placeholder for an unknown verb
UnknownVerbText(e, verb) ==
    <<"%!", verb, "(">> \o (IF e # NIL THEN <<heap[e].typ>> ELSE <<"<nil>">>) \o <<")">>

\* formatErrorInternal, given the state p after p.formatRecursive(err, true, _):
\* the text written to the fmt.State
formatErrorInternal(e, fl, traversed) ==
    CASE IsDetailed(fl) -> finishDisplay(formatEntries(traversed), fl.verb)
      [] fl.verb = "v" /\ fl.sharp -> GoSyntaxText(e)
      [] IsSingleLine(fl) -> finishDisplay(formatSingleLineOutput(traversed), fl.verb)
      [] OTHER -> UnknownVerbText(e, fl.verb)

\* (l *leafError) Format -> errbase.FormatError(l, s, verb) for a leaf l:
\* the call of formatRecursive on it does not recurse and has isOutermost.
formatLeaf(e, fl, et) ==
    formatErrorInternal(e, fl,
        formatLinkCore(NewState(fl), e, TRUE, IsDetailed(fl), et, <<>>))

\* The body of formatRecursive after the recursive call, with the Format
\* method of a leaf resolved: the flags it sees are those of the State that
\* s embeds.
formatLinkT(st, e, isOutermost, withDetail, et) ==
    formatLinkCore(st, e, isOutermost, withDetail, et,
                   formatLeaf(e, Flags("v", st.State.plus, st.State.sharp), et))

\* state.formatRecursive
RECURSIVE formatRecursiveT(_, _, _, _, _)
formatRecursiveT(st, e, isOutermost, withDetail, et) ==
    LET cause == UnwrapOnce(e)
        s0 == IF cause # NIL
              THEN formatRecursiveT(st, cause, FALSE, withDetail, et)
              ELSE st
    IN formatLinkT(s0, e, isOutermost, withDetail, et)

\* formatErrorInternal: the text written to the fmt.State
FormatErrorTextT(e, fl, et) ==
    formatErrorInternal(e, fl,
        formatRecursiveT(NewState(fl), e, TRUE, IsDetailed(fl), et))

\* fmt's %v of an error operand: its Format method when it has one (all of
\* them call errbase.FormatError), else its Error().
SprintV(e, et) ==
    IF HasFormatMethod(heap[e].typ)
    THEN FormatErrorTextT(e, Flags("v", FALSE, FALSE), et)
    ELSE et[e]

\* The Error() method of each type, given the Error() of the links below.
ErrorMethod(e, et) ==
    LET o == heap[e] IN
    CASE o.typ = TWithPrefix ->
            IF o.msg = <<>> THEN et[o.cause]
            ELSE o.msg \o ColonSpace \o SprintV(o.cause, et)
      [] o.typ \in {TWithStack, TWithFields, TKhanError} -> et[o.cause]
      [] o.typ = TFormatter ->
            IF o.cause = NIL THEN o.msg
            ELSE o.msg \o ColonSpace \o et[o.cause]
      [] OTHER -> o.msg

\* The Error() text of every link of the chain of e.
RECURSIVE ErrTab(_)
ErrTab(e) ==
    IF e = NIL THEN <<>>
    ELSE LET et == ErrTab(UnwrapOnce(e))
         IN (e :> ErrorMethod(e, et)) @@ et

ErrorText(e) == ErrTab(e)[e]

formatLink(st, e, isOutermost, withDetail) ==
    formatLinkT(st, e, isOutermost, withDetail, ErrTab(e))

FormatErrorText(e, fl) == FormatErrorTextT(e, fl, ErrTab(e))

(***************************************************************************)
(* Rendering as a state machine: one FormatError call per render id, the   *)
(* recursion of formatRecursive kept as an explicit call stack.            *)
(***************************************************************************)
Renders == {1, 2}

IdleRenders ==
    /\ rs = [r \in Renders |-> NewState(Flags("v", FALSE, FALSE))]
    /\ pc = [r \in Renders |-> "idle"]
    /\ callStack = [r \in Renders |-> <<>>]
    /\ out = [r \in Renders |-> <<>>]

renderVars == <<rs, pc, callStack, out>>

\* A render whose state is not its own: it starts from the entries and the
\* last stack another render has collected so far.
StartRenderOnSharedState(r) ==
    /\ pc[r] = "idle"
    /\ err # NIL
    /\ IsDetailed(verbs[r]) \/ IsSingleLine(verbs[r])
    /\ \E o \in Renders \ {r} :
          rs' = [rs EXCEPT ![r] = [NewState(verbs[r]) EXCEPT
                                      !.entries = rs[o].entries,
                                      !.lastStack = rs[o].lastStack]]
    /\ callStack' = [callStack EXCEPT ![r] =
                       <<[err |-> err, isOutermost |-> TRUE, recursed |-> FALSE]>>]
    /\ pc' = [pc EXCEPT ![r] = "recurse"]
    /\ UNCHANGED <<heap, err, reference, specialCases, arrays, verbs, out, reg,
                   elide, walk>>

\* formatErrorInternal entered for a verb that traverses the chain:
\* p := state{State: s}, then the outermost call of formatRecursive.
StartRender(r) ==
    /\ pc[r] = "idle"
    /\ err # NIL
    /\ IsDetailed(verbs[r]) \/ IsSingleLine(verbs[r])
    /\ rs' = [rs EXCEPT ![r] = NewState(verbs[r])]
    /\ callStack' = [callStack EXCEPT ![r] =
                       <<[err |-> err, isOutermost |-> TRUE, recursed |-> FALSE]>>]
    /\ pc' = [pc EXCEPT ![r] = "recurse"]
    /\ UNCHANGED <<heap, err, reference, specialCases, arrays, verbs, out, reg,
                   elide, walk>>

\* formatRecursive: cause := UnwrapOnce(err); the recursive call on a
\* non-nil cause.
Recurse(r) ==
    /\ pc[r] = "recurse"
    /\ LET f == callStack[r][Len(callStack[r])]
       IN /\ ~f.recursed
          /\ UnwrapOnce(f.err) # NIL
          /\ callStack' = [callStack EXCEPT ![r] =
                 Append([@ EXCEPT ![Len(@)].recursed = TRUE],
                        [err |-> UnwrapOnce(f.err), isOutermost |-> FALSE,
                         recursed |-> FALSE])]
    /\ UNCHANGED <<heap, err, reference, specialCases, arrays, verbs, rs, pc, out,
                   reg, elide, walk>>

\* formatRecursive that may format a link before it has recursed into the
\* link's cause.
FormatLinkBeforeCause(r) ==
    /\ pc[r] = "recurse"
    /\ LET f == callStack[r][Len(callStack[r])]
       IN /\ rs' = [rs EXCEPT ![r] =
                      formatLink(@, f.err, f.isOutermost, IsDetailed(verbs[r]))]
          /\ callStack' = [callStack EXCEPT ![r] = SubSeq(@, 1, Len(@) - 1)]
          /\ pc' = [pc EXCEPT ![r] =
                      IF Len(callStack[r]) = 1 THEN "project" ELSE "recurse"]
    /\ UNCHANGED <<heap, err, reference, specialCases, arrays, verbs, out, reg,
                   elide, walk>>

\* formatRecursive: the rest of the call for the innermost pending frame,
\* and the return to its caller.
FormatLink(r) ==
    /\ pc[r] = "recurse"
    /\ LET f == callStack[r][Len(callStack[r])]
       IN /\ f.recursed \/ UnwrapOnce(f.err) = NIL
          /\ rs' = [rs EXCEPT ![r] =
                      formatLink(@, f.err, f.isOutermost, IsDetailed(verbs[r]))]
          /\ callStack' = [callStack EXCEPT ![r] = SubSeq(@, 1, Len(@) - 1)]
          /\ pc' = [pc EXCEPT ![r] =
                      IF Len(callStack[r]) = 1 THEN "project" ELSE "recurse"]
    /\ UNCHANGED <<heap, err, reference, specialCases, arrays, verbs, out, reg,
                   elide, walk>>

\* formatEntries (detailed) or formatSingleLineOutput
Project(r) ==
    /\ pc[r] = "project"
    /\ rs' = [rs EXCEPT ![r] = IF IsDetailed(verbs[r]) THEN formatEntries(@)
                               ELSE formatSingleLineOutput(@)]
    /\ pc' = [pc EXCEPT ![r] = "finish"]
    /\ UNCHANGED <<heap, err, reference, specialCases, arrays, verbs, callStack,
                   out, reg, elide, walk>>

\* finishDisplay
FinishDisplay(r) ==
    /\ pc[r] = "finish"
    /\ out' = [out EXCEPT ![r] = finishDisplay(rs[r], verbs[r].verb)]
    /\ pc' = [pc EXCEPT ![r] = "done"]
    /\ UNCHANGED <<heap, err, reference, specialCases, arrays, verbs, rs,
                   callStack, reg, elide, walk>>


(***************************************************************************)
(* The chains, registries and verbs the renders are run on.                *)
(***************************************************************************)
FLoad == [fn |-> "main.load", file |-> "/src/main.go", line |-> 10]
FMain == [fn |-> "main.main", file |-> "/src/main.go", line |-> 37]
FRuntime == [fn |-> "runtime.main", file |-> "/go/proc.go", line |-> 225]

Obj(typ, msg, det, retNil, stack) ==
    [EmptyObj EXCEPT !.typ = typ, !.msg = msg, !.detail = det, !.retNil = retNil,
                     !.stack = stack]

WrapperShapes ==
    { Obj(TWithPrefix, <<"a">>, <<>>, FALSE, <<>>),
      Obj(TWithPrefix, <<"a", NL, "b", "c">>, <<>>, FALSE, <<>>),
      Obj(TKhanError, <<>>, <<>>, FALSE, <<FLoad, FMain, FRuntime>>),
      Obj(TWithFields, <<>>, <<>>, FALSE, <<FMain, FRuntime>>),
      Obj(TFormatter, <<"c">>, <<"d">>, TRUE, <<>>),
      Obj(TFormatter, <<"e">>, <<>>, FALSE, <<>>) }

LeafShapes ==
    { Obj(TLeafError, <<"x">>, <<>>, FALSE, <<>>),
      Obj(TErrorString, <<"y">>, <<>>, FALSE, <<>>),
      Obj(TErrorString, <<"y", NL, "z">>, <<>>, FALSE, <<>>),
      Obj(TFormatter, <<"f">>, <<"g">>, FALSE, <<>>) }

\* A chain of k links laid out at addresses 1..k, outermost first.
MkChain(ws, leaf, k) ==
    [i \in 1..k |-> IF i < k THEN [ws[i] EXCEPT !.cause = i + 1] ELSE leaf]

ChainHeaps(n, wrappers, leaves) ==
    UNION { { MkChain(ws, leaf, k) : ws \in [1..(k - 1) -> wrappers], leaf \in leaves }
            : k \in 1..n }

HandlerXQuiet == Handler("X", <<>>, FALSE, <<>>, FALSE)
HandlerXNoisy == Handler("X", <<"x">>, FALSE, <<>>, FALSE)
HandlerY == Handler("Y", <<>>, TRUE, <<"y">>, FALSE)
HandlerZ == Handler("Z", <<>>, TRUE, <<"z">>, TRUE)

RegistryChoices ==
    { <<>>, <<HandlerXQuiet, HandlerY>>, <<HandlerXNoisy, HandlerY>>, <<HandlerZ>> }

\* The registry after the handlers of list were registered one by one.
RegistryHolds(list) ==
    IF list = <<>> THEN specialCases = NilSlice /\ arrays = <<>>
    ELSE /\ arrays = <<list>>
         /\ specialCases = [arr |-> 1, len |-> Len(list), cap |-> Len(list)]

VerbChoices ==
    { [r \in Renders |-> IF r = 1 THEN f ELSE Flags("v", FALSE, FALSE)] :
        f \in { Flags("v", TRUE, FALSE), Flags("v", FALSE, FALSE),
                Flags("s", FALSE, FALSE) } }

IdleElide == elide = [pc |-> "idle", prevStack |-> <<>>, newStack |-> <<>>,
                      stack |-> <<>>, elided |-> FALSE]
IdleWalk == walk = [pc |-> "idle", result |-> NIL, found |-> FALSE]
IdleReg == reg = <<>>

Init ==
    /\ heap \in ChainHeaps(MaxChain, WrapperShapes, LeafShapes)
    /\ err = 1
    /\ reference = NIL
    /\ \E list \in RegistryChoices : RegistryHolds(list)
    /\ verbs \in VerbChoices
    /\ IdleRenders /\ IdleElide /\ IdleWalk /\ IdleReg

\* The caller formats the error with the first verb, then with the second.
Next ==
    \/ StartRender(1)
    \/ (pc[1] = "done" /\ StartRender(2))
    \/ \E r \in Renders : Recurse(r)
    \/ \E r \in Renders : FormatLink(r)
    \/ \E r \in Renders : Project(r)
    \/ \E r \in Renders : FinishDisplay(r)

Spec == Init /\ [][Next]_vars


(***************************************************************************)
(* ElideSharedStackTraceSuffix on its own: every pair of stacks.           *)
(***************************************************************************)
IdleChain ==
    /\ heap = <<>> /\ err = NIL /\ reference = NIL
    /\ verbs = [r \in Renders |-> Flags("v", FALSE, FALSE)]

InitElide ==
    /\ \E p \in StacksUpTo(MaxStack), n \in StacksUpTo(MaxStack) :
          elide = [pc |-> "call", prevStack |-> p, newStack |-> n,
                   stack |-> <<>>, elided |-> FALSE]
    /\ IdleChain /\ RegistryHolds(<<>>) /\ IdleRenders /\ IdleWalk /\ IdleReg

ElideCall ==
    /\ elide.pc = "call"
    /\ LET r == ElideSharedStackTraceSuffix(elide.prevStack, elide.newStack)
       IN elide' = [elide EXCEPT !.pc = "done", !.stack = r.stack,
                                 !.elided = r.elided]
    /\ UNCHANGED <<heap, err, reference, specialCases, arrays, rs, verbs, pc,
                   callStack, out, reg, walk>>

NextElide == ElideCall

SpecElide == InitElide /\ [][NextElide]_vars

(***************************************************************************)
(* The chain walker on its own: Is and Cause on every chain and reference. *)
(***************************************************************************)
ExtAddr == MaxWalk + 2     \* the address of an error that is no link of the chain

IsObj(msg, matches) == [EmptyObj EXCEPT !.typ = TIsError, !.msg = msg,
                                        !.matches = matches]

WalkWrappers ==
    { Obj(TWithPrefix, <<"a">>, <<>>, FALSE, <<>>),
      IsObj(<<"a">>, {}),
      IsObj(<<"a">>, {ExtAddr}) }

WalkLeaves ==
    { Obj(TErrorString, <<"a">>, <<>>, FALSE, <<>>),
      Obj(TErrorKind, <<"a">>, <<>>, FALSE, <<>>),
      Obj(TErrorKind, <<"b">>, <<>>, FALSE, <<>>),
      IsObj(<<"b">>, {ExtAddr}) }

WalkOthers ==
    { Obj(TErrorString, <<"a">>, <<>>, FALSE, <<>>),
      Obj(TErrorKind, <<"a">>, <<>>, FALSE, <<>>) }

InitWalk ==
    /\ \E chain \in ChainHeaps(MaxWalk, WalkWrappers, WalkLeaves), o \in WalkOthers :
          heap = chain @@ (ExtAddr :> o)
    /\ err \in {NIL, 1}
    /\ reference \in {NIL} \cup DOMAIN heap
    /\ verbs = [r \in Renders |-> Flags("v", FALSE, FALSE)]
    /\ walk = [pc |-> "call", result |-> NIL, found |-> FALSE]
    /\ RegistryHolds(<<>>) /\ IdleRenders /\ IdleElide /\ IdleReg

CallIs ==
    /\ walk.pc = "call"
    /\ walk' = [walk EXCEPT !.pc = "isDone", !.found = Is(err, reference)]
    /\ UNCHANGED <<heap, err, reference, specialCases, arrays, rs, verbs, pc,
                   callStack, out, reg, elide>>

CallCause ==
    /\ walk.pc = "call"
    /\ walk' = [walk EXCEPT !.pc = "causeDone", !.result = Cause(err)]
    /\ UNCHANGED <<heap, err, reference, specialCases, arrays, rs, verbs, pc,
                   callStack, out, reg, elide>>

NextWalk == CallIs \/ CallCause

SpecWalk == InitWalk /\ [][NextWalk]_vars


(***************************************************************************)
(* Registration on its own: two goroutines call RegisterSpecialCasePrinter *)
(* while a third ranges over the registry as formatRecursive does.  The    *)
(* statement  specialCases = append(specialCases, fn)  is three memory     *)
(* operations with no lock around them: read the slice header, write the   *)
(* element (into the spare capacity, or into a fresh array after copying), *)
(* write the slice header back.                                            *)
(***************************************************************************)
MaxPre == 3                \* handlers registered before the goroutines start

Registrars == {1, 2}

NoHandler == Handler("", <<>>, FALSE, <<>>, FALSE)

PreHandler(i) == Handler(ToString(i), <<>>, FALSE, <<>>, FALSE)

RegistrarFn(g) == IF g = 1 THEN HandlerXQuiet ELSE HandlerY

\* The built-in append: header h over the arrays arrs, one more element fn.
goAppend(h, arrs, fn) ==
    IF h.len < h.cap
    THEN [h |-> [h EXCEPT !.len = h.len + 1],
          arrays |-> [arrs EXCEPT ![h.arr][h.len + 1] = fn]]
    ELSE LET newcap == IF h.cap = 0 THEN 1 ELSE 2 * h.cap
             old == IF h.len = 0 THEN <<>> ELSE SubSeq(arrs[h.arr], 1, h.len)
         IN [h |-> [arr |-> Len(arrs) + 1, len |-> h.len + 1, cap |-> newcap],
             arrays |-> Append(arrs, old \o <<fn>> \o
                                     Repeat(<<NoHandler>>, newcap - h.len - 1))]

\* The registry after k handlers were registered one after the other.
RECURSIVE Registered(_)
Registered(k) ==
    IF k = 0 THEN [h |-> NilSlice, arrays |-> <<>>]
    ELSE LET before == Registered(k - 1)
         IN goAppend(before.h, before.arrays, PreHandler(k))

InitReg ==
    /\ \E k \in 0..MaxPre :
          /\ specialCases = Registered(k).h
          /\ arrays = Registered(k).arrays
          /\ reg = [pre |-> k,
                    w |-> [g \in Registrars |-> [pc |-> "start", h |-> NilSlice]],
                    rd |-> [pc |-> "start", h |-> NilSlice, i |-> 0, seen |-> <<>>]]
    /\ IdleChain /\ IdleRenders /\ IdleElide /\ IdleWalk

regOther == <<heap, err, reference, rs, verbs, pc, callStack, out, elide, walk>>

\* Registrar g reads the header of specialCases.
RegLoad(g) ==
    /\ reg.w[g].pc = "start"
    /\ reg' = [reg EXCEPT !.w[g] = [pc |-> "loaded", h |-> specialCases]]
    /\ UNCHANGED <<specialCases, arrays>>
    /\ UNCHANGED regOther

\* Registrar g stores its handler behind the elements of the header it read.
RegAppend(g) ==
    /\ reg.w[g].pc = "loaded"
    /\ LET r == goAppend(reg.w[g].h, arrays, RegistrarFn(g))
       IN /\ arrays' = r.arrays
          /\ reg' = [reg EXCEPT !.w[g] = [pc |-> "appended", h |-> r.h]]
    /\ UNCHANGED specialCases
    /\ UNCHANGED regOther

\* Registrar g writes the new header to specialCases.
RegStore(g) ==
    /\ reg.w[g].pc = "appended"
    /\ specialCases' = reg.w[g].h
    /\ reg' = [reg EXCEPT !.w[g].pc = "done"]
    /\ UNCHANGED arrays
    /\ UNCHANGED regOther

\* The formatting goroutine evaluates the range expression once.
RangeLoad ==
    /\ reg.rd.pc = "start"
    /\ reg' = [reg EXCEPT !.rd = [pc |-> IF specialCases.len = 0 THEN "done" ELSE "ranging",
                                  h |-> specialCases, i |-> 1, seen |-> <<>>]]
    /\ UNCHANGED <<specialCases, arrays>>
    /\ UNCHANGED regOther

\* and then reads one element per iteration.
RangeStep ==
    /\ reg.rd.pc = "ranging"
    /\ LET rd == reg.rd
           seen == Append(rd.seen, arrays[rd.h.arr][rd.i])
       IN reg' = [reg EXCEPT !.rd = [rd EXCEPT !.seen = seen, !.i = rd.i + 1,
                                     !.pc = IF rd.i = rd.h.len THEN "done" ELSE "ranging"]]
    /\ UNCHANGED <<specialCases, arrays>>
    /\ UNCHANGED regOther

NextReg ==
    \/ \E g \in Registrars : RegLoad(g)
    \/ \E g \in Registrars : RegAppend(g)
    \/ \E g \in Registrars : RegStore(g)
    \/ RangeLoad
    \/ RangeStep

SpecReg == InitReg /\ [][NextReg]_vars


(***************************************************************************)
(* Properties of a render (specification Spec).                            *)
(***************************************************************************)
\* The text before the first newline of t, and the rest of t.
RECURSIVE FirstNL(_, _)
FirstNL(t, i) == IF i > Len(t) THEN i ELSE IF t[i] = NL THEN i ELSE FirstNL(t, i + 1)

HeaderOf(t) == SubSeq(t, 1, FirstNL(t, 1) - 1)
BodyOf(t) == SubSeq(t, FirstNL(t, 1), Len(t))

HasNL(t) == \E i \in 1..Len(t) : t[i] = NL

\* The entry a finished traversal holds for link k, counted from the outermost.
EntryOfLink(st, k) == st.entries[Len(st.entries) - k + 1]

\* The subsequence of the non-empty texts of a sequence of texts.
NonEmptyTexts(ts) == SelectSeq(ts, LAMBDA t : t # <<>>)

\* The heads of the links a single-line summary shows, outermost first.
KeptHeads(st) ==
    LET n == Len(st.entries)
        shown == [k \in 1..n |-> IF EntryOfLink(st, k).elideShort THEN <<>>
                                 ELSE EntryOfLink(st, k).head]
    IN NonEmptyTexts(shown)

\* Every entry of st belongs to the link of its position.
EntriesFollowChain(st) ==
    /\ Len(st.entries) = Len(ChainOf(err))
    /\ \A k \in 1..Len(st.entries) : EntryOfLink(st, k).err = ChainOf(err)[k]

SingleLineDone(r) == pc[r] = "done" /\ IsSingleLine(verbs[r])
DetailedDone(r) == pc[r] = "done" /\ IsDetailed(verbs[r])

\* C1: a finished single-line render (%s or plain %v) of a chain is exactly
\* the heads of the links that are neither flagged elide-short nor empty,
\* outermost first, joined by ": "; a skipped link adds no separator.
C1_SingleLineIsJoinOfKeptHeads ==
    \A r \in Renders :
        SingleLineDone(r) =>
            /\ EntriesFollowChain(rs[r])
            /\ out[r] = Join(KeptHeads(rs[r]), ColonSpace)

\* A finished single-line render that skipped a link for its empty head and
\* another for its elide-short flag, and showed a third.
C1_Witness ==
    \E r \in Renders :
        /\ SingleLineDone(r)
        /\ \E i, j, k \in 1..Len(rs[r].entries) :
              /\ rs[r].entries[i].elideShort
              /\ ~rs[r].entries[j].elideShort /\ rs[r].entries[j].head = <<>>
              /\ ~rs[r].entries[k].elideShort /\ rs[r].entries[k].head # <<>>

\* The items and the footer a detailed render of the chain of err must show:
\* link k under label k, and the type of link k under index k.
RECURSIVE ItemsFrom(_, _)
ItemsFrom(st, k) ==
    IF k > Len(ChainOf(err)) THEN <<>>
    ELSE (IF k = 1 THEN FirstLabel ELSE WrapsLabel(k))
         \o printEntryText(EntryOfLink(st, k)) \o ItemsFrom(st, k + 1)

RECURSIVE FooterFrom(_)
FooterFrom(k) ==
    IF k > Len(ChainOf(err)) THEN <<>>
    ELSE TypePair(k, heap[ChainOf(err)[k]].typ) \o FooterFrom(k + 1)

\* C2: in a finished detailed render (%+v) the outermost link is item (1),
\* link k from the outermost is "Wraps: (k)" for k = 2..N in increasing
\* order, and the "Error types:" footer lists the N pairs "(k) type" with
\* the concrete type of the link printed under k.
C2_DetailedNumbering ==
    \A r \in Renders :
        DetailedDone(r) =>
            /\ EntriesFollowChain(rs[r])
            /\ ~HasNL(HeaderOf(out[r]))
            /\ BodyOf(out[r]) = ItemsFrom(rs[r], 1) \o TypesLabel \o FooterFrom(1)

\* A finished detailed render of three links of three different types.
C2_Witness ==
    \E r \in Renders :
        /\ DetailedDone(r)
        /\ Len(ChainOf(err)) = 3
        /\ heap[1].typ # heap[2].typ /\ heap[2].typ # heap[3].typ
        /\ heap[1].typ # heap[3].typ

BothDone == pc[1] = "done" /\ pc[2] = "done" /\ IsDetailed(verbs[1])
            /\ ~IsDetailed(verbs[2])

FirstLinesOfKeptHeads(st) ==
    LET n == Len(st.entries)
        shown == [k \in 1..n |-> IF EntryOfLink(st, k).elideShort THEN <<>>
                                 ELSE HeaderOf(EntryOfLink(st, k).head)]
    IN NonEmptyTexts(shown)

C9_EntryHoldsOnlyAcceptingHandlerOutput ==
    \A r \in Renders :
        LET list == SliceElems(specialCases)
        IN (/\ pc[r] \in {"project", "finish", "done"}
            /\ Len(list) = 2 /\ ~list[1].handled /\ list[2].handled)
           => \A i \in 1..Len(rs[r].entries) :
                 /\ rs[r].entries[i].head = list[2].text
                 /\ rs[r].entries[i].details = <<>>


(***************************************************************************)
(* Properties of ElideSharedStackTraceSuffix (specification SpecElide).     *)
(***************************************************************************)
\* The length of the longest common suffix of stacks a and b.
RECURSIVE CommonSuffixLen(_, _, _)
CommonSuffixLen(a, b, n) ==
    IF n < Len(a) /\ n < Len(b) /\ a[Len(a) - n] = b[Len(b) - n]
    THEN CommonSuffixLen(a, b, n + 1)
    ELSE n

IsPrefix(p, t) == Len(p) <= Len(t) /\ p = SubSeq(t, 1, Len(p))

ElideDone == elide.pc = "done"

\* C4 as stated: for non-empty prev and new the result is new without its
\* longest common suffix with prev, no other frame dropped, one frame kept
\* when all of new is shared.
C4_ExactlySharedSuffixRemoved ==
    (ElideDone /\ elide.prevStack # <<>> /\ elide.newStack # <<>>) =>
        LET n == CommonSuffixLen(elide.prevStack, elide.newStack, 0)
            keep == IF n = Len(elide.newStack) THEN 1 ELSE Len(elide.newStack) - n
        IN elide.stack = SubSeq(elide.newStack, 1, keep)

\* C5 as stated: the elided flag is true exactly when a frame of new is
\* missing from the returned stack.
C5_FlagIffFrameDropped ==
    ElideDone => (elide.elided <=> Len(elide.stack) < Len(elide.newStack))

\* C6: for a non-empty new stack and any prev the result is a non-empty
\* prefix of new; for an empty prev it is new itself and the flag is false.
C6_NonEmptyPrefix ==
    (ElideDone /\ elide.newStack # <<>>) =>
        /\ elide.stack # <<>>
        /\ IsPrefix(elide.stack, elide.newStack)
        /\ elide.prevStack = <<>> =>
              (elide.stack = elide.newStack /\ ~elide.elided)

\* The call returned for a new stack of several frames identical to prev:
\* full overlap, one frame kept.
C6_Witness ==
    /\ ElideDone
    /\ Len(elide.newStack) > 1
    /\ elide.prevStack = elide.newStack
    /\ Len(elide.stack) = 1

C8_CauseIsLeafAndIdempotent ==
    walk.pc = "causeDone" =>
        /\ UnwrapOnce(walk.result) = NIL
        /\ Cause(walk.result) = walk.result
        /\ err # NIL => walk.result = ChainOf(err)[Len(ChainOf(err))]

\* Cause returned on a chain of three links.
C8_Witness ==
    /\ walk.pc = "causeDone"
    /\ Len(ChainOf(err)) = 3
    /\ walk.result = 3

(***************************************************************************)
(* Properties of registration (specification SpecReg).                     *)
(***************************************************************************)
RegistrarsDone == \A g \in Registrars : reg.w[g].pc = "done"

\* C10 as stated: after two concurrent registrations the registry holds the
\* handlers registered before, at their positions, and both new handlers;
\* a concurrent range sees the handlers registered before, at their
\* positions.
C10_NoRegistrationLost ==
    /\ RegistrarsDone =>
          LET list == SliceElems(specialCases)
          IN /\ Len(list) = reg.pre + 2
             /\ \A i \in 1..reg.pre : list[i] = PreHandler(i)
             /\ \A g \in Registrars : \E i \in 1..Len(list) : list[i] = RegistrarFn(g)
    /\ reg.rd.pc = "done" =>
          /\ Len(reg.rd.seen) >= reg.pre
          /\ \A i \in 1..reg.pre : reg.rd.seen[i] = PreHandler(i)


(***************************************************************************)
(* Two callers format the same chain at the same time (specification       *)
(* SpecConc): each call of formatErrorInternal has its own  p := state{}   *)
(* and the steps of the two calls interleave freely.                       *)
(***************************************************************************)
ConcWrappers ==
    { Obj(TWithPrefix, <<"a">>, <<>>, FALSE, <<>>),
      Obj(TKhanError, <<>>, <<>>, FALSE, <<FLoad, FMain, FRuntime>>),
      Obj(TWithFields, <<>>, <<>>, FALSE, <<FMain, FRuntime>>) }

ConcLeaves ==
    { Obj(TLeafError, <<"x">>, <<>>, FALSE, <<>>),
      Obj(TErrorString, <<"y", NL, "z">>, <<>>, FALSE, <<>>) }

ConcVerbs == { Flags("v", TRUE, FALSE), Flags("v", FALSE, FALSE),
               Flags("s", FALSE, FALSE) }

InitConc ==
    /\ heap \in ChainHeaps(MaxChain, ConcWrappers, ConcLeaves)
    /\ err = 1
    /\ reference = NIL
    /\ RegistryHolds(<<>>)
    /\ verbs \in [Renders -> ConcVerbs]
    /\ IdleRenders /\ IdleElide /\ IdleWalk /\ IdleReg

NextConc ==
    \/ \E r \in Renders : StartRender(r)
    \/ \E r \in Renders : Recurse(r)
    \/ \E r \in Renders : FormatLink(r)
    \/ \E r \in Renders : Project(r)
    \/ \E r \in Renders : FinishDisplay(r)

SpecConc == InitConc /\ [][NextConc]_vars

\* C11: when two callers render the same chain concurrently, in any
\* interleaving of their steps, each obtains exactly the output of a
\* sequential render of the chain with its verb.
C11_ConcurrentRenderIsSequential ==
    \A r \in Renders :
        /\ pc[r] = "finish" =>
              finishDisplay(rs[r], verbs[r].verb) = FormatErrorText(err, verbs[r])
        /\ pc[r] = "done" => out[r] = FormatErrorText(err, verbs[r])

\* One caller has its output while the other, which has collected entries
\* with a stack, is still in its traversal.
C11_Witness ==
    \E r \in Renders, o \in Renders :
        /\ r # o
        /\ pc[r] = "done" /\ out[r] = FormatErrorText(err, verbs[r])
        /\ pc[o] = "recurse" /\ rs[o].entries # <<>> /\ rs[o].lastStack # <<>>
        /\ rs[r].entries # <<>>


(***************************************************************************)
(* One call of FormatError with any verb and any flags, on a chain or on a *)
(* nil error (specification SpecVerbs).                                    *)
(***************************************************************************)
IsGoSyntax(fl) == fl.verb = "v" /\ fl.sharp /\ ~IsDetailed(fl)

IsUnknownVerb(fl) == fl.verb \notin {"v", "s", "q", "x", "X"}

\* formatErrorInternal, case %#v: no call of formatRecursive.
FormatGoSyntax(r) ==
    /\ pc[r] = "idle"
    /\ IsGoSyntax(verbs[r])
    /\ rs' = [rs EXCEPT ![r] = [NewState(verbs[r]) EXCEPT !.finalBuf = GoSyntaxText(err)]]
    /\ pc' = [pc EXCEPT ![r] = "finish"]
    /\ UNCHANGED <<heap, err, reference, specialCases, arrays, verbs, callStack,
                   out, reg, elide, walk>>

\* formatErrorInternal, default case: the placeholder is built in finalBuf
\* and copied to the fmt.State; no call of formatRecursive.
FormatUnknownVerb(r) ==
    /\ pc[r] = "idle"
    /\ IsUnknownVerb(verbs[r])
    /\ rs' = [rs EXCEPT ![r] = [NewState(verbs[r]) EXCEPT
                                   !.finalBuf = UnknownVerbText(err, verbs[r].verb)]]
    /\ out' = [out EXCEPT ![r] = UnknownVerbText(err, verbs[r].verb)]
    /\ pc' = [pc EXCEPT ![r] = "done"]
    /\ UNCHANGED <<heap, err, reference, specialCases, arrays, verbs, callStack,
                   reg, elide, walk>>

\* A traversing verb on a nil error: formatRecursive reaches formatSimple,
\* which calls err.Error() on the nil interface.
NilPanic(r) ==
    /\ pc[r] = "idle"
    /\ err = NIL
    /\ IsDetailed(verbs[r]) \/ IsSingleLine(verbs[r])
    /\ pc' = [pc EXCEPT ![r] = "panic"]
    /\ UNCHANGED <<heap, err, reference, specialCases, arrays, verbs, rs,
                   callStack, out, reg, elide, walk>>

AllVerbs == {"v", "s", "q", "x", "X", "d", "t"}

AllFlags == { Flags(v, p, h) : v \in AllVerbs, p \in BOOLEAN, h \in BOOLEAN }

InitVerbs ==
    /\ heap \in ChainHeaps(MaxChain, WrapperShapes, LeafShapes)
    /\ err \in {NIL, 1}
    /\ reference = NIL
    /\ RegistryHolds(<<>>)
    /\ \E f \in AllFlags :
          verbs = [r \in Renders |-> IF r = 1 THEN f ELSE Flags("v", FALSE, FALSE)]
    /\ IdleRenders /\ IdleElide /\ IdleWalk /\ IdleReg

NextVerbs ==
    \/ StartRender(1)
    \/ FormatGoSyntax(1)
    \/ FormatUnknownVerb(1)
    \/ NilPanic(1)
    \/ Recurse(1)
    \/ FormatLink(1)
    \/ Project(1)
    \/ FinishDisplay(1)

SpecVerbs == InitVerbs /\ [][NextVerbs]_vars

\* C12: for every verb other than v, s, q, x and X the call ends without a
\* failure and without a traversal of the chain, and the output is exactly
\* "%!" verb "(" type-of-err-or-<nil> ")".
C12_UnknownVerbPlaceholder ==
    IsUnknownVerb(verbs[1]) =>
        /\ pc[1] \in {"idle", "done"}
        /\ rs[1].entries = <<>> /\ callStack[1] = <<>>
        /\ pc[1] = "done" =>
              out[1] = <<"%!", verbs[1].verb, "(",
                         IF err = NIL THEN "<nil>" ELSE heap[err].typ, ")">>

\* The placeholder was written for a nil error.
C12_Witness ==
    /\ IsUnknownVerb(verbs[1]) /\ pc[1] = "done" /\ err = NIL
    /\ out[1] = <<"%!", verbs[1].verb, "(", "<nil>", ")">>


\* The text holds a mark that only a detailed render writes.
HasDetailMarks(t) ==
    \E i \in 1..Len(t) : t[i] \in {"Wraps: ", "Error types:", "-- stack trace:", "|"}

\* C13 as stated: in every mode other than %+v (without #) no link is
\* rendered in detail: for %s, %v, %q, %x and %X, with any flags, no entry
\* has a details part and the text handed to finishDisplay holds no stack
\* trace, no "Wraps:" and no "Error types:" line; for %#v the chain is not
\* traversed.
C13_NoDetailOutsideDetailedMode ==
    /\ IsGoSyntax(verbs[1]) => (rs[1].entries = <<>> /\ callStack[1] = <<>>)
    /\ (IsSingleLine(verbs[1]) /\ pc[1] \in {"finish", "done"}) =>
          /\ \A i \in 1..Len(rs[1].entries) : rs[1].entries[i].details = <<>>
          /\ ~HasDetailMarks(rs[1].finalBuf)


(***************************************************************************)
(* GetOneLineSource (specification SpecSource): the printed form of the    *)
(* newest frame of a stack is parsed back into file, line and function.    *)
(***************************************************************************)
IsSpace(c) == c \in {NL, "\t", " "}

\* strings.TrimSpace
RECURSIVE TrimLeft(_)
TrimLeft(t) == IF t # <<>> /\ IsSpace(Head(t)) THEN TrimLeft(Tail(t)) ELSE t

RECURSIVE TrimRight(_)
TrimRight(t) ==
    IF t # <<>> /\ IsSpace(t[Len(t)]) THEN TrimRight(SubSeq(t, 1, Len(t) - 1)) ELSE t

TrimSpace(t) == TrimRight(TrimLeft(t))

\* strings.SplitN(t, "\n", n): at most n parts, the last one unsplit
RECURSIVE SplitN(_, _)
SplitN(t, n) ==
    IF n <= 1 \/ ~HasNL(t) THEN <<t>>
    ELSE <<HeaderOf(t)>> \o SplitN(SubSeq(t, FirstNL(t, 1) + 1, Len(t)), n - 1)

\* strconv.Atoi on the decimal text of a line number
Atoi(tok) == IF \E n \in 0..999 : ToString(n) = tok
             THEN CHOOSE n \in 0..999 : ToString(n) = tok
             ELSE 0

\* filepath.Base on the file names of Frames
filepathBase(file) ==
    CASE file = "/src/main.go" -> "main.go"
      [] file = "/go/proc.go" -> "proc.go"
      [] OTHER -> file

\* functionName: the function without its package path
functionName(fnName) ==
    CASE fnName = "main.load" -> "load"
      [] fnName = "main.main" -> "main"
      [] fnName = "runtime.main" -> "main"
      [] OTHER -> fnName

\* parsePrintedStackEntry(lines, 0): the function name is the first line,
\* the file and the line number follow on a second line that starts with a
\* tab, separated by the last ':'.
parsePrintedStackEntry(lines) ==
    LET fnName == IF lines[1] = <<>> THEN "" ELSE lines[1][1]
        hasLoc == Len(lines) > 1 /\ lines[2] # <<>> /\ lines[2][1] = "\t"
        fileLine == IF hasLoc THEN TrimSpace(lines[2]) ELSE <<>>
    IN [fnName |-> fnName,
        file |-> IF Len(fileLine) >= 1 THEN fileLine[1] ELSE "",
        line |-> IF Len(fileLine) >= 3 /\ fileLine[2] = ":" THEN Atoi(fileLine[3]) ELSE 0]

NoSource == [file |-> "", line |-> 0, fn |-> "", ok |-> FALSE]

\* getOneLineSourceFromPrintedStack
getOneLineSourceFromPrintedStack(st) ==
    LET lines == SplitN(TrimSpace(st), 3)
        e == parsePrintedStackEntry(lines)
    IN [file |-> filepathBase(e.file), line |-> e.line,
        fn |-> IF e.fnName # "unknown" THEN functionName(e.fnName) ELSE "",
        ok |-> TRUE]

\* getOneLineSourceFromPkgStack
getOneLineSourceFromPkgStack(st) ==
    IF Len(st) > 0 THEN getOneLineSourceFromPrintedStack(StackText(SubSeq(st, 1, 1)))
    ELSE NoSource

\* getDetails
getDetails(e) ==
    IF HasStackTraceMethod(heap[e].typ) THEN <<StackText(heap[e].stack)>> ELSE <<>>

\* The body of GetOneLineSource below the recursion.
sourceOfLink(e) ==
    IF HasStackTraceMethod(heap[e].typ)
    THEN getOneLineSourceFromPkgStack(heap[e].stack)
    ELSE IF Len(getDetails(e)) > 0
    THEN getOneLineSourceFromPrintedStack(getDetails(e)[1])
    ELSE NoSource

\* GetOneLineSource that looks at the link itself before its cause.
RECURSIVE GetOneLineSourceOuterFirst(_)
GetOneLineSourceOuterFirst(e) ==
    IF sourceOfLink(e).ok THEN sourceOfLink(e)
    ELSE IF UnwrapOnce(e) # NIL THEN GetOneLineSourceOuterFirst(UnwrapOnce(e))
    ELSE NoSource

\* GetOneLineSource
RECURSIVE GetOneLineSource(_)
GetOneLineSource(e) ==
    LET c == UnwrapOnce(e)
        inner == IF c # NIL THEN GetOneLineSource(c) ELSE NoSource
    IN IF c # NIL /\ inner.ok THEN inner ELSE sourceOfLink(e)

SourceWrappers ==
    { Obj(TWithPrefix, <<"a">>, <<>>, FALSE, <<>>),
      Obj(TKhanError, <<>>, <<>>, FALSE, <<FLoad, FMain, FRuntime>>),
      Obj(TKhanError, <<>>, <<>>, FALSE, <<FRuntime>>),
      Obj(TWithFields, <<>>, <<>>, FALSE, <<FMain, FRuntime>>),
      Obj(TWithFields, <<>>, <<>>, FALSE, <<FLoad, FRuntime>>) }

SourceLeaves ==
    { Obj(TLeafError, <<"x">>, <<>>, FALSE, <<>>),
      Obj(TErrorString, <<"y">>, <<>>, FALSE, <<>>) }

InitSource ==
    /\ heap \in ChainHeaps(MaxChain, SourceWrappers, SourceLeaves)
    /\ err = 1
    /\ reference = NIL
    /\ verbs = [r \in Renders |-> Flags("v", FALSE, FALSE)]
    /\ walk = [pc |-> "call", source |-> NoSource]
    /\ RegistryHolds(<<>>) /\ IdleRenders /\ IdleElide /\ IdleReg

CallGetOneLineSource ==
    /\ walk.pc = "call"
    /\ walk' = [pc |-> "sourceDone", source |-> GetOneLineSource(err)]
    /\ UNCHANGED <<heap, err, reference, specialCases, arrays, rs, verbs, pc,
                   callStack, out, reg, elide>>

NextSource == CallGetOneLineSource

SpecSource == InitSource /\ [][NextSource]_vars

\* The links of the chain that carry a captured stack, as positions from the
\* outermost.
StackLinks ==
    { k \in 1..Len(ChainOf(err)) :
        /\ HasStackTraceMethod(heap[ChainOf(err)[k]].typ)
        /\ heap[ChainOf(err)[k]].stack # <<>> }

MaxOf(S) == CHOOSE x \in S : \A y \in S : y <= x

\* C14: GetOneLineSource reports ok exactly when some link carries a
\* captured stack, and then the file (base name), line and function of the
\* newest frame of the innermost such link, never those of an outer one.
C14_InnermostStackTopFrame ==
    walk.pc = "sourceDone" =>
        /\ walk.source.ok <=> StackLinks # {}
        /\ StackLinks # {} =>
              LET f == heap[ChainOf(err)[MaxOf(StackLinks)]].stack[1]
              IN /\ walk.source.line = f.line
                 /\ walk.source.file = filepathBase(f.file)
                 /\ walk.source.fn = functionName(f.fn)

\* The source was taken from the inner of two links with stacks whose
\* newest frames differ.
C14_Witness ==
    /\ walk.pc = "sourceDone" /\ walk.source.ok
    /\ \E i \in StackLinks, j \in StackLinks :
          /\ i < j
          /\ heap[ChainOf(err)[i]].stack[1] # heap[ChainOf(err)[j]].stack[1]
          /\ walk.source.line = heap[ChainOf(err)[j]].stack[1].line
          /\ walk.source.line # heap[ChainOf(err)[i]].stack[1].line


(***************************************************************************)
(* The scenario of a leaf "boom" wrapped with the prefix "read config" and *)
(* then with a stack captured at main.load, line 10 (specification         *)
(* SpecBoom): Wrap(leaf, "read config") is a stack link around a prefix    *)
(* link around the leaf.                                                   *)
(***************************************************************************)
StackLinkTypes == {TWithStack, TWithFields, TKhanError}

BoomStacks == { st \in StacksUpTo(MaxStack) : st # <<>> /\ st[1] = FLoad }

BoomChains ==
    { MkChain(<<Obj(t, <<>>, <<>>, FALSE, st),
                Obj(TWithPrefix, <<"read config">>, <<>>, FALSE, <<>>)>>,
              Obj(lt, <<"boom">>, <<>>, FALSE, <<>>), 3) :
        t \in StackLinkTypes, st \in BoomStacks, lt \in {TErrorString, TLeafError} }

InitBoom ==
    /\ heap \in BoomChains
    /\ err = 1
    /\ reference = NIL
    /\ RegistryHolds(<<>>)
    /\ \E f \in {Flags("v", FALSE, FALSE), Flags("s", FALSE, FALSE)} :
          verbs = [r \in Renders |-> IF r = 1 THEN Flags("v", TRUE, FALSE) ELSE f]
    /\ IdleRenders /\ IdleElide /\ IdleWalk /\ IdleReg

SpecBoom == InitBoom /\ [][Next]_vars

\* The index of the last "Error types:" mark of t, and the number of
\* "(k) type" pairs behind it.
LastTypesLabel(t) ==
    LET S == { i \in 1..Len(t) : t[i] = "Error types:" }
    IN CHOOSE i \in S : \A j \in S : j <= i

FooterPairs(t) == (Len(t) - LastTypesLabel(t)) \div Len(TypePair(1, ""))

\* The text of item (1): between "(1)" and the first "Wraps: " mark.
RECURSIVE FirstIndexOf(_, _, _)
FirstIndexOf(t, tok, i) ==
    IF i > Len(t) THEN i ELSE IF t[i] = tok THEN i ELSE FirstIndexOf(t, tok, i + 1)

FirstItemText(t) == SubSeq(t, FirstNL(t, 1), FirstIndexOf(t, "Wraps: ", 1) - 1)

Mentions(t, tok) == \E i \in 1..Len(t) : t[i] = tok

BoomRendered(n) ==
    /\ out[2] = <<"read config", ":", " ", "boom">>
    /\ HeaderOf(out[1]) = <<"read config", ":", " ", "boom">>
    /\ IsPrefix(FirstLabel \o StackTraceHeader, FirstItemText(out[1]))
    /\ Mentions(FirstItemText(out[1]), "main.load")
    /\ Mentions(FirstItemText(out[1]), "10")
    /\ EntryOfLink(rs[1], 2).head = <<"read config">>
    /\ Mentions(out[1], "Wraps: ") /\ FooterPairs(out[1]) = n

\* C15 as stated: for that chain the single-line render is
\* "read config: boom", the detailed header is the same, item (1) carries
\* the stack trace naming main.load and line 10, "Wraps: (2)" has the head
\* "read config", and the footer lists 2 entries.
C15_BoomFooterOfTwo == BothDone => BoomRendered(2)

\* C15, amended: the same, with a footer of 3 entries (stack link, prefix
\* link, leaf) and the leaf printed as "Wraps: (3)" with the head "boom".
C15_BoomFooterOfThree ==
    BothDone => (BoomRendered(3) /\ EntryOfLink(rs[1], 3).head = <<"boom">>)

\* Both renders of the scenario are finished, the stack holding frames below
\* main.load.
C15_Witness ==
    /\ BothDone /\ Len(heap[1].stack) > 1 /\ heap[1].stack[1].fn = "main.load"
    /\ heap[3].msg = <<"boom">> /\ FooterPairs(out[1]) = 3


(***************************************************************************)
(* Links whose FormatError method prints a message, calls Detail() and     *)
(* prints more when it returned true (specification SpecDetail).           *)
(***************************************************************************)
DetailWrappers ==
    { Obj(TFormatter, <<"c">>, <<"d">>, FALSE, <<>>),
      Obj(TFormatter, <<"c", NL, "d", "e">>, <<"g">>, FALSE, <<>>),
      Obj(TFormatter, <<"e">>, <<"f", "g">>, TRUE, <<>>),
      Obj(TWithPrefix, <<"a">>, <<>>, FALSE, <<>>) }

DetailLeaves ==
    { Obj(TFormatter, <<"f">>, <<"g", "h">>, FALSE, <<>>),
      Obj(TErrorString, <<"y">>, <<>>, FALSE, <<>>) }

InitDetail ==
    /\ heap \in ChainHeaps(MaxChain, DetailWrappers, DetailLeaves)
    /\ err = 1
    /\ reference = NIL
    /\ RegistryHolds(<<>>)
    /\ verbs \in VerbChoices
    /\ IdleRenders /\ IdleElide /\ IdleWalk /\ IdleReg

SpecDetail == InitDetail /\ [][Next]_vars

\* The text t without the newlines and the continuation marks of detailSep.
Unindented(t) == SelectSeq(t, LAMBDA c : c \notin {NL, " ", "|"})

\* The links of the chain whose FormatError calls Detail(), as positions.
DetailCallers ==
    { k \in 1..Len(ChainOf(err)) :
        /\ heap[ChainOf(err)[k]].typ = TFormatter
        /\ heap[ChainOf(err)[k]].detail # <<>> }

Traversed(r) == pc[r] \in {"project", "finish", "done"}

\* What Detail() does in the state of render r, whenever it is called.
DetailFollowsMode(r) ==
    /\ detail(rs[r]).ret = rs[r].wantDetail
    /\ ~rs[r].wantDetail => detail(rs[r]).st = rs[r]
    /\ rs[r].wantDetail => detail(rs[r]).st.hasDetail
    /\ rs[r].entries # <<>> => (rs[r].wantDetail <=> IsDetailed(verbs[r]))

\* In a render that is not detailed the entry of a caller of Detail() is its
\* message, with no details.
NoDetailsWhenNotDetailed(r) ==
    (Traversed(r) /\ ~IsDetailed(verbs[r])) =>
        \A k \in DetailCallers :
            /\ EntryOfLink(rs[r], k).head = heap[ChainOf(err)[k]].msg
            /\ EntryOfLink(rs[r], k).details = <<>>

\* C16 as stated: Detail() returns true exactly in a detailed render; then
\* the text written before the call is the head of the link and the text
\* written after it is in the details; in a render that is not detailed it
\* returns false and changes nothing.
C16_TextBeforeDetailIsHead ==
    \A r \in Renders :
        /\ DetailFollowsMode(r)
        /\ NoDetailsWhenNotDetailed(r)
        /\ (Traversed(r) /\ IsDetailed(verbs[r])) =>
              \A k \in DetailCallers :
                  LET o == heap[ChainOf(err)[k]]
                  IN /\ EntryOfLink(rs[r], k).head = o.msg
                     /\ Unindented(EntryOfLink(rs[r], k).details) = o.detail

\* C16, amended: as stated when the text written before the call holds no
\* newline; when it holds one, the head is the text before the first
\* newline, and the rest of it goes to the details, in front of the text
\* written after the call.
C16_FirstLineBeforeDetailIsHead ==
    \A r \in Renders :
        /\ DetailFollowsMode(r)
        /\ NoDetailsWhenNotDetailed(r)
        /\ (Traversed(r) /\ IsDetailed(verbs[r])) =>
              \A k \in DetailCallers :
                  LET o == heap[ChainOf(err)[k]]
                  IN /\ EntryOfLink(rs[r], k).head = HeaderOf(o.msg)
                     /\ Unindented(EntryOfLink(rs[r], k).details)
                           = Unindented(BodyOf(o.msg)) \o o.detail

\* A detailed render and a plain render of a chain with a caller of
\* Detail() whose message has one line, both finished.
C16_Witness ==
    /\ BothDone
    /\ \E k \in DetailCallers :
          /\ ~HasNL(heap[ChainOf(err)[k]].msg)
          /\ EntryOfLink(rs[1], k).details # <<>>
          /\ EntryOfLink(rs[2], k).details = <<>>


(***************************************************************************)
(* Kinds, Fields and the arguments of the Khan-style constructors.  A      *)
(* Fields value is a Go map (nil or not); an argument is an interface{}    *)
(* value: its dynamic type t and the value under the field of that type.   *)
(***************************************************************************)
NotFoundKind == "not found"
InvalidInputKind == "invalid input error"
NotAllowedKind == "not allowed"
UnauthorizedKind == "unauthorized error"
InternalKind == "internal error"
NotImplementedKind == "not implemented error"
GraphqlResponseKind == "graphql error response"
TransientKhanServiceKind == "transient khan service error"
KhanServiceKind == "khan service error"
TransientServiceKind == "transient service error"
ServiceKind == "service error"
UnspecifiedKind == "unspecified error"

Kinds ==
    { NotFoundKind, InvalidInputKind, NotAllowedKind, UnauthorizedKind,
      InternalKind, NotImplementedKind, GraphqlResponseKind,
      TransientKhanServiceKind, KhanServiceKind, TransientServiceKind,
      ServiceKind, UnspecifiedKind }

NilFields == [isNil |-> TRUE, m |-> <<>>]
MkFields(m) == [isNil |-> FALSE, m |-> m]

ArgNil == [t |-> "nil", s |-> "", e |-> NIL, f |-> NilFields, l |-> <<>>]
ArgStr(str) == [ArgNil EXCEPT !.t = "string", !.s = str]
ArgInt(str) == [ArgNil EXCEPT !.t = "int", !.s = str]
ArgErr(a) == [ArgNil EXCEPT !.t = "error", !.e = a]
ArgFields(f) == [ArgNil EXCEPT !.t = "Fields", !.f = f]
ArgList(l) == [ArgNil EXCEPT !.t = "[]interface {}", !.l = l]

\* A khanError or withFields object: the wrapper with its kind and fields.
FieldsObj(typ, kind, cause, fields, stack) ==
    [typ |-> typ, msg |-> <<>>, detail |-> <<>>, retNil |-> FALSE,
     cause |-> cause, stack |-> stack, matches |-> {}, kind |-> kind,
     fields |-> fields]

\* An errorKind value as an error: Error() is the kind's string.
KindObj(kind) ==
    [typ |-> TErrorKind, msg |-> <<kind>>, detail |-> <<>>, retNil |-> FALSE,
     cause |-> NIL, stack |-> <<>>, matches |-> {}, kind |-> kind,
     fields |-> NilFields]

\* fmt's %v of a string or integer value.
ValueText(v) == IF v.t \in {"string", "int"} THEN <<v.s>> ELSE <<>>

\* The string fieldsIterate hands to fn for key k: "%s%s%v" of k, eq, val.
fieldText(fields, k) ==
    LET v == fields.m[k]
    IN IF v.t = "nil" THEN <<k>>
       ELSE <<k>> \o (IF Len(k) > 1 THEN <<":">> ELSE <<>>) \o ValueText(v)

\* The orders in which a `range` over a Go map may visit its keys.
RangeOrders(fields) ==
    LET K == DOMAIN fields.m
    IN { p \in [1..Cardinality(K) -> K] :
           \A i, j \in 1..Cardinality(K) : i # j => p[i] # p[j] }

\* sort.Strings of the keys; the keys of the model in increasing order.
KeysInOrder == <<"a", "id", "user">>
SortedKeys(fields) == SelectSeq(KeysInOrder, LAMBDA k : k \in DOMAIN fields.m)

\* The calls of fn by fieldsIterate when the map is visited in this order.
RECURSIVE khanFieldsLoop(_, _, _, _)
khanFieldsLoop(st, fields, order, i) ==
    IF i > Len(order) THEN st
    ELSE LET s1 == IF i > 1 THEN PrinterPrint(st, <<",", " ">>) ELSE st
         IN khanFieldsLoop(PrinterPrint(s1, fieldText(fields, order[i])),
                           fields, order, i + 1)

\* khanError.SafeFormatError, with the order its map range takes
khanErrorSafeFormatError(st, e, order) ==
    LET d == detail(st)
        s1 == PrinterPrint(d.st, <<"kind: ", heap[e].kind>>)
        s2 == IF heap[e].fields.isNil THEN s1
              ELSE PrinterPrint(
                     khanFieldsLoop(PrinterPrint(s1, <<"fields: [">>),
                                    heap[e].fields, order, 1),
                     <<"]">>)
    IN IF d.ret THEN s2 ELSE d.st

RECURSIVE withFieldsLoop(_, _, _, _)
withFieldsLoop(st, fields, keys, i) ==
    IF i > Len(keys) THEN st
    ELSE LET s1 == IF i > 1 THEN PrinterPrint(st, <<",">>) ELSE st
         IN withFieldsLoop(PrinterPrint(s1, fieldText(fields, keys[i])),
                           fields, keys, i + 1)

\* withFields.SafeFormatError
withFieldsSafeFormatError(st, e) ==
    LET d == detail(st)
        f == heap[e].fields
    IN IF d.ret /\ ~f.isNil /\ DOMAIN f.m # {}
       THEN PrinterPrint(
              withFieldsLoop(PrinterPrint(d.st, <<"fields: [">>), f,
                             SortedKeys(f), 1),
              <<"]", ",", " ">>)
       ELSE d.st

\* What a printer in the mode fl has received when the method returns.
PrinterText(st) == collectEntry(st, NIL).head \o collectEntry(st, NIL).details

PrinterFor(fl) == [NewState(fl) EXCEPT !.wantDetail = IsDetailed(fl)]

(***************************************************************************)
(* A link with structured fields describes itself to a printer, twice, in  *)
(* the same mode (specification SpecFields).                               *)
(***************************************************************************)
FieldChoices ==
    { NilFields, MkFields(<<>>) }
    \cup { MkFields([k \in K |-> ArgStr("1")]) :
             K \in (SUBSET {"a", "id", "user"}) \ {{}} }
    \cup { MkFields([k \in {"id", "user"} |-> IF k = "id" THEN ArgNil ELSE ArgInt("7")]) }

InitFields ==
    /\ \E typ \in {TKhanError, TWithFields}, kind \in Kinds, f \in FieldChoices :
          heap = << FieldsObj(typ, kind, 2, f, <<FLoad, FMain>>),
                    Obj(TErrorString, <<"y">>, <<>>, FALSE, <<>>) >>
    /\ err = 1
    /\ reference = NIL
    /\ \E fl \in {Flags("v", TRUE, FALSE), Flags("v", FALSE, FALSE)} :
          verbs = [r \in Renders |-> fl]
    /\ RegistryHolds(<<>>) /\ IdleRenders /\ IdleElide /\ IdleWalk /\ IdleReg

CallKhanSafeFormatError(r) ==
    /\ pc[r] = "idle"
    /\ heap[err].typ = TKhanError
    /\ \E order \in RangeOrders(heap[err].fields) :
          /\ rs' = [rs EXCEPT ![r] =
                      khanErrorSafeFormatError(PrinterFor(verbs[r]), err, order)]
          /\ out' = [out EXCEPT ![r] = PrinterText(rs'[r])]
    /\ pc' = [pc EXCEPT ![r] = "done"]
    /\ UNCHANGED <<heap, err, reference, specialCases, arrays, verbs, callStack,
                   reg, elide, walk>>

CallWithFieldsSafeFormatError(r) ==
    /\ pc[r] = "idle"
    /\ heap[err].typ = TWithFields
    /\ rs' = [rs EXCEPT ![r] = withFieldsSafeFormatError(PrinterFor(verbs[r]), err)]
    /\ out' = [out EXCEPT ![r] = PrinterText(rs'[r])]
    /\ pc' = [pc EXCEPT ![r] = "done"]
    /\ UNCHANGED <<heap, err, reference, specialCases, arrays, verbs, callStack,
                   reg, elide, walk>>

NextFields ==
    \E r \in Renders :
        \/ CallKhanSafeFormatError(r)
        \/ CallWithFieldsSafeFormatError(r)

SpecFields == InitFields /\ [][NextFields]_vars

MaxArgs == 2       \* arguments after err in a call of KhanWrap or a constructor

KindSeq ==
    << NotFoundKind, InvalidInputKind, NotAllowedKind, UnauthorizedKind,
       InternalKind, NotImplementedKind, GraphqlResponseKind,
       TransientKhanServiceKind, KhanServiceKind, TransientServiceKind,
       ServiceKind, UnspecifiedKind >>

\* The kind values as errors sit at the addresses 1..12, a plain error next.
KindAddr(kind) == CHOOSE i \in 1..Len(KindSeq) : KindSeq[i] = kind
PlainAddr == Len(KindSeq) + 1

OddMessage == "Passed an odd number of field-args to errors.Wrap()"
NonStringKeyMessage == "Passed a non-string key-field to errors.Wrap()"

\* The loop of newError over args: the last error, string and Fields win.
RECURSIVE newErrorLoop(_, _, _)
newErrorLoop(args, i, acc) ==
    IF i > Len(args) THEN acc
    ELSE LET v == args[i]
         IN newErrorLoop(args, i + 1,
              IF v.t = "error" THEN [acc EXCEPT !.cause = v.e]
              ELSE IF v.t = "string" THEN [acc EXCEPT !.message = v.s]
              ELSE IF v.t = "Fields" THEN [acc EXCEPT !.fields = v.f]
              ELSE acc)

\* khanWrapWithFieldsAndDepth: the object built, or none for a nil cause
khanWrapWithFieldsAndDepth(kind, cause, fields) ==
    IF cause = NIL THEN [isNil |-> TRUE, obj |-> EmptyObj]
    ELSE [isNil |-> FALSE,
          obj |-> FieldsObj(TKhanError, kind, cause, fields, <<FMain, FRuntime>>)]

\* newError
newError(kind, args) ==
    LET acc == newErrorLoop(args, 1,
                 [message |-> "", cause |-> KindAddr(kind), fields |-> NilFields])
        fields == IF acc.message = "" THEN acc.fields
                  ELSE IF acc.fields.isNil
                  THEN MkFields("message" :> ArgStr(acc.message))
                  ELSE MkFields(("message" :> ArgStr(acc.message)) @@ acc.fields.m)
    IN khanWrapWithFieldsAndDepth(kind, acc.cause, fields)

\* The loop of KhanWrap over the key/value pairs, up to the first key that
\* is not a string.
RECURSIVE pairsLoop(_, _, _)
pairsLoop(args, i, m) ==
    IF i > Len(args) THEN [ok |-> TRUE, m |-> m, bad |-> ArgNil]
    ELSE IF args[i].t # "string" THEN [ok |-> FALSE, m |-> m, bad |-> args[i]]
    ELSE pairsLoop(args, i + 2, (args[i].s :> args[i + 1]) @@ m)

\* KhanWrap
KhanWrap(e, args) ==
    IF e = NIL THEN [isNil |-> TRUE, obj |-> EmptyObj]
    ELSE IF Len(args) % 2 # 0
    THEN newError(InternalKind,
           << ArgErr(e),
              ArgFields(MkFields(("fields" :> ArgList(args))
                                 @@ ("message" :> ArgStr(OddMessage)))) >>)
    ELSE LET p == pairsLoop(args, 1, <<>>)
             fields == ArgFields(MkFields(p.m))
         IN IF ~p.ok
            THEN newError(InternalKind,
                   << ArgErr(e),
                      ArgFields(MkFields(("key" :> p.bad)
                                 @@ ("message" :> ArgStr(NonStringKeyMessage)))) >>)
            ELSE IF heap[e].typ # TKhanError
            THEN IF heap[e].typ = TErrorKind
                 THEN newError(heap[e].kind, <<fields>>)
                 ELSE newError(InternalKind, <<ArgErr(e), fields>>)
            ELSE IF heap[e].kind = UnspecifiedKind
            THEN newError(InternalKind, args)
            ELSE newError(heap[e].kind, <<ArgErr(e), fields>>)

\* The category constructors: each passes its kind, as the error, to KhanWrap.
Constructors ==
    [ NotFound |-> NotFoundKind, InvalidInput |-> InvalidInputKind,
      NotAllowed |-> NotAllowedKind, Unauthorized |-> UnauthorizedKind,
      Internal |-> InternalKind, GraphqlResponse |-> GraphqlResponseKind,
      NotImplemented |-> NotImplementedKind,
      TransientKhanService |-> TransientKhanServiceKind,
      KhanService |-> KhanServiceKind, Service |-> ServiceKind,
      TransientService |-> TransientServiceKind ]

\* A constructor called by its name
Constructor(name, args) == KhanWrap(KindAddr(Constructors[name]), args)

ArgChoices ==
    { ArgStr("id"), ArgInt("7"), ArgErr(PlainAddr),
      ArgFields(MkFields("id" :> ArgStr("1"))) }

ArgLists == UNION { [1..n -> ArgChoices] : n \in 0..MaxArgs }

InitKhan ==
    /\ heap = [i \in 1..PlainAddr |->
                 IF i <= Len(KindSeq) THEN KindObj(KindSeq[i])
                 ELSE Obj(TErrorString, <<"boom">>, <<>>, FALSE, <<>>)
                         @@ [kind |-> "", fields |-> NilFields]]
    /\ err = NIL
    /\ reference = NIL
    /\ verbs = [r \in Renders |-> Flags("v", FALSE, FALSE)]
    /\ walk = [pc |-> "start", fn |-> "", args |-> <<>>, result |-> NIL]
    /\ RegistryHolds(<<>>) /\ IdleRenders /\ IdleElide /\ IdleReg

\* The call returns res: the new object, if any, is allocated.
Returns(fn, e, args, res, pcAfter) ==
    /\ heap' = IF res.isNil THEN heap ELSE Append(heap, res.obj)
    /\ err' = e
    /\ walk' = [pc |-> pcAfter, fn |-> fn, args |-> args,
                result |-> IF res.isNil THEN NIL ELSE Len(heap) + 1]
    /\ UNCHANGED <<reference, specialCases, arrays, rs, verbs, pc, callStack,
                   out, reg, elide>>

CallConstructor ==
    /\ walk.pc = "start"
    /\ \E name \in DOMAIN Constructors, args \in ArgLists :
          Returns(name, KindAddr(Constructors[name]), args,
                  Constructor(name, args), "made")

\* KhanWrap of a kind value or of a plain error
CallKhanWrapFirst ==
    /\ walk.pc = "start"
    /\ \E e \in 1..PlainAddr, args \in ArgLists :
          Returns("KhanWrap", e, args, KhanWrap(e, args), "made")

\* KhanWrap of the error the first call returned
CallKhanWrap ==
    /\ walk.pc = "made"
    /\ walk.result # NIL
    /\ \E args \in ArgLists :
          Returns("KhanWrap", walk.result, args, KhanWrap(walk.result, args),
                  "wrapped")

NextKhan == CallConstructor \/ CallKhanWrapFirst \/ CallKhanWrap

SpecKhan == InitKhan /\ [][NextKhan]_vars

\* args is a list of key/value pairs with string keys.
WellFormed(args) ==
    /\ Len(args) % 2 = 0
    /\ \A i \in 1..Len(args) : i % 2 = 1 => args[i].t = "string"

\* The map holding exactly the pairs of a well-formed args.
PairsOf(args) ==
    [k \in { args[i].s : i \in { j \in 1..Len(args) : j % 2 = 1 } } |->
        args[(CHOOSE i \in 1..Len(args) :
                /\ i % 2 = 1 /\ args[i].s = k
                /\ \A j \in (i + 1)..Len(args) : j % 2 = 1 => args[j].s # k) + 1]]

KhanWrapReturned ==
    walk.pc \in {"made", "wrapped"} /\ walk.fn = "KhanWrap"

\* C18: KhanWrap of a khanError of kind K with well-formed args returns a
\* new khanError of kind K whose cause is err and whose fields are the
\* given pairs; with malformed args, or for an err that is neither a
\* khanError nor a kind, the result has kind InternalKind.
C18_KhanWrapKeepsKind ==
    KhanWrapReturned =>
        /\ walk.result = Len(heap)
        /\ heap[walk.result].typ = TKhanError
        /\ (heap[err].typ = TKhanError /\ WellFormed(walk.args)) =>
              /\ heap[walk.result].kind = heap[err].kind
              /\ heap[walk.result].cause = err
              /\ heap[walk.result].fields = MkFields(PairsOf(walk.args))
        /\ (~WellFormed(walk.args) \/ heap[err].typ \notin {TKhanError, TErrorKind}) =>
              heap[walk.result].kind = InternalKind

\* C18 for every khanError whose kind is not UnspecifiedKind.
C18_KhanWrapKeepsSpecifiedKind ==
    (KhanWrapReturned /\ ~(heap[err].typ = TKhanError /\ heap[err].kind = UnspecifiedKind))
        => C18_KhanWrapKeepsKind

\* C19: each category constructor returns an error of its own kind,
\* whatever the arguments.
C19_ConstructorKind ==
    (walk.pc = "made" /\ walk.fn \in DOMAIN Constructors) =>
        /\ walk.result # NIL
        /\ heap[walk.result].typ = TKhanError
        /\ heap[walk.result].kind = Constructors[walk.fn]

\* C19 for the argument lists that are key/value pairs with string keys.
C19_ConstructorKindOnPairs ==
    (walk.pc = "made" /\ walk.fn \in DOMAIN Constructors /\ WellFormed(walk.args))
        => C19_ConstructorKind


(***************************************************************************)
(* Wrapf: WrapWithDepthf, WithMessagef and fmt.Sprintf (specification      *)
(* SpecWrapf).  A format is a sequence of literal pieces and "%v" verbs.   *)
(***************************************************************************)
\* The dynamic type of an operand, as fmt names it.
TypeName(v) == IF v.t = "error" THEN heap[v.e].typ ELSE v.t

\* fmt's %v of an operand.
OperandText(v) ==
    IF v.t = "error" THEN SprintV(v.e, ErrTab(v.e)) ELSE ValueText(v)

\* The operands left over when the format is used up: "type=value, ..."
RECURSIVE ExtraOperands(_, _)
ExtraOperands(args, n) ==
    IF n > Len(args) THEN <<>>
    ELSE <<TypeName(args[n]), "=">> \o OperandText(args[n])
         \o (IF n < Len(args) THEN <<",", " ">> ELSE <<>>)
         \o ExtraOperands(args, n + 1)

\* fmt.Sprintf from piece i of the format, with operand n the next to use
RECURSIVE SprintfLoop(_, _, _, _)
SprintfLoop(format, args, i, n) ==
    IF i > Len(format)
    THEN IF n <= Len(args)
         THEN <<"%!(EXTRA ">> \o ExtraOperands(args, n) \o <<")">>
         ELSE <<>>
    ELSE IF format[i] = "%v"
    THEN IF n <= Len(args)
         THEN OperandText(args[n]) \o SprintfLoop(format, args, i + 1, n + 1)
         ELSE <<"%!v(MISSING)">> \o SprintfLoop(format, args, i + 1, n)
    ELSE <<format[i]>> \o SprintfLoop(format, args, i + 1, n)

Sprintf(format, args) == SprintfLoop(format, args, 1, 1)

\* WithMessagef: the withPrefix object built around err
WithMessagef(e, format, args) ==
    [Obj(TWithPrefix, Sprintf(format, args), <<>>, FALSE, <<>>) EXCEPT !.cause = e]

\* withstack.WithStackDepth: the withStack object built around err
WithStackDepth(e) ==
    [Obj(TWithStack, <<>>, <<>>, FALSE, <<FLoad, FMain, FRuntime>>) EXCEPT !.cause = e]

\* errutil.WrapWithDepthf: the heap after the call; the result is its last
\* object, or nil when err is nil.
WrapWithDepthf(h, e, format, args) ==
    IF e = NIL THEN h
    ELSE IF format # <<>> \/ Len(args) > 0
    THEN Append(Append(h, WithMessagef(e, format, args)), WithStackDepth(Len(h) + 1))
    ELSE Append(h, WithStackDepth(e))

WrapfFormats == { <<>>, <<"ctx">>, <<"read ", "%v">> }
WrapfArgs == { ArgStr("id"), ArgInt("7"), ArgErr(1) }
WrapfArgLists == UNION { [1..n -> WrapfArgs] : n \in 0..MaxArgs }

InitWrapf ==
    /\ heap \in ChainHeaps(2, {Obj(TWithPrefix, <<"a">>, <<>>, FALSE, <<>>)},
                           {Obj(TErrorString, <<"boom">>, <<>>, FALSE, <<>>),
                            Obj(TLeafError, <<"x">>, <<>>, FALSE, <<>>)})
    /\ err \in {NIL, 1}
    /\ reference = NIL
    /\ verbs = [r \in Renders |-> Flags("v", FALSE, FALSE)]
    /\ walk = [pc |-> "call", format |-> <<>>, args |-> <<>>, base |-> 0,
               result |-> NIL]
    /\ RegistryHolds(<<>>) /\ IdleRenders /\ IdleElide /\ IdleReg

\* errors.Wrapf(err, format, args...)
CallWrapf ==
    /\ walk.pc = "call"
    /\ \E format \in WrapfFormats, args \in WrapfArgLists :
          /\ heap' = WrapWithDepthf(heap, err, format, args)
          /\ walk' = [pc |-> "done", format |-> format, args |-> args,
                      base |-> Len(heap),
                      result |-> IF err = NIL THEN NIL ELSE Len(heap')]
    /\ UNCHANGED <<err, reference, specialCases, arrays, rs, verbs, pc,
                   callStack, out, reg, elide>>

NextWrapf == CallWrapf

SpecWrapf == InitWrapf /\ [][NextWrapf]_vars

\* The links the call added.
LinksAdded == (walk.base + 1)..Len(heap)

NoPrefixAdded ==
    /\ \A a \in LinksAdded : ~(heap[a].typ = TWithPrefix /\ heap[a].msg # <<>>)
    /\ ErrorText(walk.result) = ErrorText(err)

\* C20: Wrapf of a non-nil err with an empty format adds no link with a
\* non-empty prefix, whatever the args, and the Error() of the result is
\* that of err.
C20_EmptyFormatAddsNoPrefix ==
    (walk.pc = "done" /\ err # NIL /\ walk.format = <<>>) => NoPrefixAdded

\* C20 for an empty format without args.
C20_EmptyFormatNoArgsAddsNoPrefix ==
    (walk.pc = "done" /\ err # NIL /\ walk.format = <<>> /\ walk.args = <<>>)
        => NoPrefixAdded


(***************************************************************************)
(* Chains built by the package's constructors and then rendered            *)
(* (specification SpecBuild): each step wraps the error built so far.      *)
(***************************************************************************)
MaxBuild == 2      \* constructor calls applied to the leaf

\* errutil.WithMessage: the withPrefix object built around err
WithMessage(e, msg) ==
    [Obj(TWithPrefix, msg, <<>>, FALSE, <<>>) EXCEPT !.cause = e]

\* errutil.WrapWithDepth: the heap after the call; the result is its last
\* object, or nil when err is nil.
WrapWithDepth(h, e, msg) ==
    IF e = NIL THEN h
    ELSE IF msg # <<>>
    THEN Append(Append(h, WithMessage(e, msg)), WithStackDepth(Len(h) + 1))
    ELSE Append(h, WithStackDepth(e))

\* WrapWithFieldsAndDepth: the withFields object built around err
WrapWithFieldsAndDepth(e, fields) ==
    FieldsObj(TWithFields, "", e, fields, <<FMain, FRuntime>>)

BuildLeaves ==
    { Obj(TErrorString, <<"b", "o", "o", "m">>, <<>>, FALSE, <<>>),
      Obj(TLeafError, <<"x">>, <<>>, FALSE, <<>>),
      Obj(TLeafError, <<"x", NL>>, <<>>, FALSE, <<>>) }

BuildMsg == <<"m">>
BuildFields == MkFields("id" :> ArgInt("7"))
BuildArgs == <<ArgStr("id"), ArgInt("7")>>

InitBuild ==
    /\ heap \in { <<leaf>> : leaf \in BuildLeaves }
    /\ err \in {NIL, 1}
    /\ reference = NIL
    /\ RegistryHolds(<<>>)
    /\ verbs \in VerbChoices
    /\ walk = [op |-> "", msg |-> <<>>, base |-> NIL, steps |-> 0]
    /\ IdleRenders /\ IdleElide /\ IdleReg

\* The constructor op returned: h is the heap it leaves.
Built(op, msg, h) ==
    /\ walk.steps < MaxBuild
    /\ pc[1] = "idle"
    /\ heap' = h
    /\ err' = IF err = NIL THEN NIL ELSE Len(h)
    /\ walk' = [op |-> op, msg |-> msg, base |-> err, steps |-> walk.steps + 1]
    /\ UNCHANGED <<reference, specialCases, arrays, rs, verbs, pc, callStack,
                   out, reg, elide>>

BuildWithMessage ==
    Built("WithMessage", BuildMsg,
          IF err = NIL THEN heap ELSE Append(heap, WithMessage(err, BuildMsg)))

BuildWrap ==
    \E msg \in {<<>>, BuildMsg} : Built("Wrap", msg, WrapWithDepth(heap, err, msg))

BuildWithStack ==
    Built("WithStack", <<>>,
          IF err = NIL THEN heap ELSE Append(heap, WithStackDepth(err)))

BuildWrapWithFields ==
    Built("WrapWithFields", <<>>,
          IF err = NIL THEN heap
          ELSE Append(heap, WrapWithFieldsAndDepth(err, BuildFields)))

BuildKhanWrap ==
    Built("KhanWrap", <<>>,
          IF KhanWrap(err, BuildArgs).isNil THEN heap
          ELSE Append(heap, KhanWrap(err, BuildArgs).obj))

NextBuild ==
    \/ BuildWithMessage
    \/ BuildWrap
    \/ BuildWithStack
    \/ BuildWrapWithFields
    \/ BuildKhanWrap
    \/ (walk.steps > 0 /\ Next)

SpecBuild == InitBuild /\ [][NextBuild]_vars

\* t holds the text sub somewhere.
Contains(t, sub) ==
    \E i \in 0..(Len(t) - Len(sub)) : SubSeq(t, i + 1, i + Len(sub)) = sub

WrapReturned == walk.op = "Wrap" /\ walk.base # NIL

\* What C21 says of the chain Wrap returned and of its renders.
WrapAddsStackOverPrefix ==
    LET c == ChainOf(err)
        n == IF walk.msg # <<>> THEN 2 ELSE 1
    IN /\ Len(c) = Len(ChainOf(walk.base)) + n
       /\ c[n + 1] = walk.base
       /\ HasStackTraceMethod(heap[c[1]].typ)
       /\ walk.msg # <<>> => (heap[c[2]].typ = TWithPrefix /\ heap[c[2]].msg = walk.msg)
       /\ \A r \in Renders :
             /\ Traversed(r) =>
                   /\ EntryOfLink(rs[r], 1).head = <<>>
                   /\ EntryOfLink(rs[r], 1).hasStack
                   /\ walk.msg # <<>> => EntryOfLink(rs[r], 2).head = walk.msg
             /\ (SingleLineDone(r) /\ walk.msg # <<>>) =>
                   out[r] = walk.msg \o ColonSpace \o FormatErrorText(walk.base, verbs[r])
             /\ DetailedDone(r) =>
                   /\ IsPrefix(FirstLabel \o StackTraceHeader, BodyOf(out[r]))
                   /\ walk.msg # <<>> =>
                         Contains(out[r], WrapsLabel(2) \o <<" ">> \o walk.msg)

\* C21: Wrap(err, msg) of a non-nil err puts a stack link with an empty head
\* on top of a prefix link with head msg on top of err (the stack link alone
\* when msg is empty); the single-line render is msg, ": " and the render of
\* err, the detailed render shows the stack link as (1) and the prefix as
\* "Wraps: (2)"; Wrap(nil, msg) is nil.
C21_WrapAddsStackOverPrefix ==
    /\ WrapReturned => WrapAddsStackOverPrefix
    /\ (walk.op = "Wrap" /\ walk.base = NIL) => err = NIL

\* C21 for an err whose plain render is the text of its Error().
C21_WrapOfFaithfulErr ==
    (WrapReturned
       /\ FormatErrorText(walk.base, Flags("v", FALSE, FALSE)) = ErrorText(walk.base))
        => WrapAddsStackOverPrefix


\* The render r is a finished %v or %s render of a chain some constructor built.
PlainRenderOfBuilt(r) ==
    /\ pc[r] = "done" /\ walk.steps > 0
    /\ verbs[r].verb \in {"v", "s"} /\ ~verbs[r].plus /\ ~verbs[r].sharp

\* C30: the single-line render (%v or %s) of a chain built from a leaf by
\* WithMessage, Wrap, WithStack, WrapWithFields and KhanWrap is the string
\* the outermost link's Error() returns.
C30_PlainRenderIsErrorText ==
    \A r \in Renders : PlainRenderOfBuilt(r) => out[r] = ErrorText(err)

\* C30 for the chains whose leaf message does not end in a newline.
C30_PlainRenderIsErrorTextNoTrailingNL ==
    \A r \in Renders :
        LET leaf == heap[UnwrapAll(err)].msg
        IN (PlainRenderOfBuilt(r) /\ leaf[Len(leaf)] # NL) => out[r] = ErrorText(err)


(***************************************************************************)
(* Properties of the traversal (specification Spec).                       *)
(***************************************************************************)
\* The entries of st are those of the innermost links of the chain of err,
\* the leaf first.
EntriesAreInnermostFirst(st) ==
    LET c == ChainOf(err)
    IN /\ Len(st.entries) <= Len(c)
       /\ \A i \in 1..Len(st.entries) : st.entries[i].err = c[Len(c) + 1 - i]

\* C22: at every moment of a traversal the entries collected are those of
\* the innermost links, leaf first, so that a link's entry is appended
\* after the entries of all links inner to it; after the traversal of a
\* chain of N links there are N entries, the first the leaf's and the last
\* the outermost link's.
C22_EntriesInnermostFirst ==
    \A r \in Renders :
        /\ EntriesAreInnermostFirst(rs[r])
        /\ Traversed(r) => Len(rs[r].entries) = Len(ChainOf(err))

\* A traversal of a chain of three links that has collected the entry of
\* the leaf and not yet that of the outermost link.
C22_Witness ==
    \E r \in Renders :
        /\ pc[r] = "recurse"
        /\ Len(ChainOf(err)) = 3
        /\ Len(rs[r].entries) \in {1, 2}
        /\ rs[r].entries[1].err = 3


\* The accepting handlers of the registered special cases, in order.
AcceptingHandlers == SelectSeq(SliceElems(specialCases), LAMBDA fn : fn.handled)

\* Link k of the chain of err, counted from the outermost, is formatted by
\* a special-case handler or a FormatError method that returns nil.
ReturnsNil(k) ==
    LET o == heap[ChainOf(err)[k]]
    IN IF AcceptingHandlers # <<>> THEN AcceptingHandlers[1].nilNext
       ELSE HasFormatErrorMethod(o.typ) /\ (o.retNil \/ o.cause = NIL)

\* The outermost link that returns nil, or the leaf when none does.
OutermostNil ==
    LET n == Len(ChainOf(err))
        ks == { k \in 1..n : ReturnsNil(k) }
    IN IF ks = {} THEN n ELSE CHOOSE k \in ks : \A j \in ks : k <= j

\* C23: when the FormatError method of a link, or the special-case handler
\* that accepts it, returns nil, the entries of the links inner to it are
\* flagged elide-short and no other entry is; the single-line render is
\* made of the heads of that link and of the links outer to it only, and
\* the detailed render still prints the head of every inner link in its
\* "Wraps: (k)" item.
C23_NilElidesInnerLinks ==
    \A r \in Renders :
        LET n == Len(ChainOf(err))
            st == rs[r]
        IN /\ Traversed(r) =>
                \A k \in 1..n :
                    EntryOfLink(st, k).elideShort <=>
                        \E j \in 1..(k - 1) : ReturnsNil(j)
           /\ SingleLineDone(r) =>
                out[r] = Join(NonEmptyTexts([k \in 1..OutermostNil |->
                                               EntryOfLink(st, k).head]),
                              ColonSpace)
           /\ DetailedDone(r) =>
                \A k \in 2..n :
                    Contains(out[r], WrapsLabel(k)
                                     \o printEntryText(EntryOfLink(st, k)))

\* A three-link chain whose middle link has a FormatError method returning
\* nil, rendered in detail and on a single line: the leaf has a head, the
\* detailed render shows it and the single-line render does not.
C23_Witness ==
    /\ BothDone
    /\ Len(ChainOf(err)) = 3
    /\ AcceptingHandlers = <<>>
    /\ ReturnsNil(2) /\ ~ReturnsNil(1)
    /\ rs[1].entries[1].head # <<>> /\ rs[2].entries[1].head # <<>>
    /\ rs[1].entries[1].elideShort /\ rs[2].entries[1].elideShort
    /\ Contains(out[1], WrapsLabel(3) \o <<" ">> \o rs[1].entries[1].head)
    /\ out[2] = Join(NonEmptyTexts(<<rs[2].entries[3].head,
                                     rs[2].entries[2].head>>), ColonSpace)


(***************************************************************************)
(* Chains of stack-bearing links whose captures share their oldest frames. *)
(***************************************************************************)
MaxStackLinks == 3     \* stack-bearing wrappers in a chain

FOpen == [fn |-> "main.open", file |-> "/src/main.go", line |-> 20]
FRead == [fn |-> "main.read", file |-> "/src/main.go", line |-> 30]

\* What every capture of the program ends with: main.main called by the
\* runtime.
SharedTail == <<FMain, FRuntime>>

StackWrappers ==
    { Obj(TKhanError, <<>>, <<>>, FALSE, <<FLoad>> \o SharedTail),
      Obj(TWithFields, <<>>, <<>>, FALSE, <<FOpen>> \o SharedTail),
      Obj(TWithStack, <<>>, <<>>, FALSE, <<FRead>> \o SharedTail) }

StackLeaves ==
    { Obj(TErrorString, <<"y">>, <<>>, FALSE, <<>>),
      Obj(TLeafError, <<"x">>, <<>>, FALSE, <<>>) }

InitStacks ==
    /\ heap \in ChainHeaps(MaxStackLinks + 1, StackWrappers, StackLeaves)
    /\ err = 1
    /\ reference = NIL
    /\ RegistryHolds(<<>>)
    /\ verbs \in VerbChoices
    /\ IdleRenders /\ IdleElide /\ IdleWalk /\ IdleReg

SpecStacks == InitStacks /\ [][Next]_vars

\* The entries of st that carry a stack trace, innermost first.
StackEntries(st) == SelectSeq(st.entries, LAMBDA en : en.hasStack)

PrintsTailFrame(en) ==
    \E i \in 1..Len(en.stackTrace) :
        \E j \in 1..Len(SharedTail) : en.stackTrace[i] = SharedTail[j]

\* C24: in a finished detailed render of a chain with three or more
\* stack-bearing links whose captures end in the same frames, only the
\* entry of the innermost stack-bearing link prints frames of the shared
\* tail; every outer stack-bearing entry omits the whole tail.
C24_SharedTailPrintedOnce ==
    \A r \in Renders :
        (DetailedDone(r) /\ Len(StackEntries(rs[r])) >= 3) =>
            \A i \in 2..Len(StackEntries(rs[r])) :
                ~PrintsTailFrame(StackEntries(rs[r])[i])

\* With two stack-bearing links the outer entry omits the whole tail and is
\* marked.
TwoStacksShareTailOnce ==
    \A r \in Renders :
        (DetailedDone(r) /\ Len(StackEntries(rs[r])) = 2) =>
            /\ ~PrintsTailFrame(StackEntries(rs[r])[2])
            /\ StackEntries(rs[r])[2].elidedStackTrace


(***************************************************************************)
(* The simple fallback on links without rendering capability: wrappers of  *)
(* a client type with Error() and Unwrap() only, over a plain leaf.        *)
(***************************************************************************)
MaxMsg == 4     \* characters in the message of a wrapper

MsgChars == {"p", ":", " ", "b"}

PlainWrappers ==
    UNION { { IsObj(m, {}) : m \in [1..n -> MsgChars] } : n \in 0..MaxMsg }

PlainLeaves ==
    { Obj(TErrorString, c, <<>>, FALSE, <<>>) : c \in {<<>>, <<"b">>, <<" ", "b">>} }

InitPrefix ==
    /\ heap \in ChainHeaps(2, PlainWrappers, PlainLeaves)
    /\ err = 1
    /\ reference = NIL
    /\ RegistryHolds(<<>>)
    /\ \E f \in {Flags("v", TRUE, FALSE), Flags("v", FALSE, FALSE)} :
          verbs = [r \in Renders |-> IF r = 1 THEN f ELSE Flags("s", FALSE, FALSE)]
    /\ IdleRenders /\ IdleElide /\ IdleWalk /\ IdleReg

SpecPrefix == InitPrefix /\ [][Next]_vars

\* Types with neither FormatError nor Format: the default case of the type
\* switch of formatRecursive.
NoRenderingCapability(t) == ~HasFormatErrorMethod(t) /\ ~HasFormatMethod(t)

\* The prefix p with message = p ++ ": " ++ causeMessage, as a set: empty
\* when the message is not of that form.
PrefixesOf(message, causeMessage) ==
    { p \in { SubSeq(message, 1, n) : n \in 0..Len(message) } :
        message = p \o ColonSpace \o causeMessage }

\* C25: for a wrapper link without rendering capability the simple
\* fallback yields p exactly when the link's message is p, ": " and the
\* cause's message, and nothing in every other case; for a leaf it yields
\* the whole message.
C25_SimplePrefix ==
    \A r \in Renders :
        Traversed(r) =>
            \A k \in 1..Len(ChainOf(err)) :
                LET e == ChainOf(err)[k]
                    cause == UnwrapOnce(e)
                    yield == EntryOfLink(rs[r], k).head
                IN NoRenderingCapability(heap[e].typ) =>
                      IF cause = NIL THEN yield = ErrorText(e)
                      ELSE \/ PrefixesOf(ErrorText(e), ErrorText(cause)) = {yield}
                           \/ /\ PrefixesOf(ErrorText(e), ErrorText(cause)) = {}
                              /\ yield = <<>>

\* A wrapper with message "p: b" over the leaf "b", traversed: the fallback
\* yielded "p" for the wrapper and "b" for the leaf.
C25_Witness ==
    /\ Traversed(1)
    /\ Len(ChainOf(err)) = 2
    /\ heap[1].typ = TIsError /\ heap[1].msg = <<"p", ":", " ", "b">>
    /\ heap[2].msg = <<"b">>
    /\ EntryOfLink(rs[1], 1).head = <<"p">>
    /\ EntryOfLink(rs[1], 2).head = <<"b">>


(***************************************************************************)
(* The calls of one render: formatRecursive calling itself on the cause,   *)
(* and the Format method of a link calling FormatError again.  walk holds  *)
(* the pending calls: one frame per call of formatRecursive, nest counting *)
(* the Format methods the call runs under.                                 *)
(***************************************************************************)
MaxDepth == 6      \* pending calls of formatRecursive

\* The engine invokes a link's own Format method.
InvokesFormatAnywhere(e, isOutermost) ==
    /\ AcceptingHandlers = <<>>
    /\ ~HasFormatErrorMethod(heap[e].typ)
    /\ HasFormatMethod(heap[e].typ)

\* formatRecursive, case fmt.Formatter: v.Format(s, 'v') is called when no
\* special case accepted the link, it has no FormatError, it is a leaf and
\* it is not the outermost link.
InvokesFormat(e, isOutermost) ==
    /\ AcceptingHandlers = <<>>
    /\ ~HasFormatErrorMethod(heap[e].typ)
    /\ HasFormatMethod(heap[e].typ)
    /\ ~isOutermost /\ UnwrapOnce(e) = NIL

Frame(e, isOutermost, nest) ==
    [err |-> e, isOutermost |-> isOutermost, stage |-> "enter", nest |-> nest]

InitDepth ==
    /\ heap \in ChainHeaps(MaxChain, WrapperShapes, LeafShapes)
    /\ err = 1
    /\ reference = NIL
    /\ \E list \in RegistryChoices : RegistryHolds(list)
    /\ verbs = [r \in Renders |-> Flags("v", FALSE, FALSE)]
    /\ walk = [pc |-> "start", frames |-> <<>>,
               entered |-> [e \in 1..Len(heap) |-> 0], formats |-> {}]
    /\ IdleRenders /\ IdleElide /\ IdleReg

depthOthers == <<heap, err, reference, specialCases, arrays, rs, verbs, pc,
                 callStack, out, reg, elide>>

TopFrame == walk.frames[Len(walk.frames)]

\* FormatError(err, s, verb): formatErrorInternal calls
\* formatRecursive(err, true /* isOutermost */, ...)
DepthStart ==
    /\ walk.pc = "start"
    /\ walk' = [walk EXCEPT !.pc = "run",
                            !.frames = <<Frame(err, TRUE, 0)>>,
                            !.entered[err] = @ + 1]
    /\ UNCHANGED depthOthers

\* formatRecursive: the call on the cause
DepthRecurse ==
    /\ walk.pc = "run"
    /\ Len(walk.frames) < MaxDepth
    /\ TopFrame.stage = "enter"
    /\ UnwrapOnce(TopFrame.err) # NIL
    /\ LET c == UnwrapOnce(TopFrame.err)
       IN walk' = [walk EXCEPT
                     !.frames = Append([@ EXCEPT ![Len(@)].stage = "recursed"],
                                       Frame(c, FALSE, TopFrame.nest)),
                     !.entered[c] = IF TopFrame.nest = 0 THEN @ + 1 ELSE @]
    /\ UNCHANGED depthOthers

ReadyToFormat ==
    /\ walk.pc = "run"
    /\ \/ TopFrame.stage = "recursed"
       \/ TopFrame.stage = "enter" /\ UnwrapOnce(TopFrame.err) = NIL

\* formatRecursive: the link is formatted without a call of its Format
\* method, its entry is collected and the call returns.
DepthFormatLink ==
    /\ ReadyToFormat
    /\ ~InvokesFormat(TopFrame.err, TopFrame.isOutermost)
    /\ walk' = [walk EXCEPT !.frames = SubSeq(@, 1, Len(@) - 1),
                            !.pc = IF Len(walk.frames) = 1 THEN "done" ELSE "run"]
    /\ UNCHANGED depthOthers

\* formatRecursive: v.Format(s, 'v'); every Format method of the repository
\* is errbase.FormatError(e, s, verb), which calls formatRecursive on e as
\* the outermost link.
DepthCallFormat ==
    /\ ReadyToFormat
    /\ InvokesFormat(TopFrame.err, TopFrame.isOutermost)
    /\ Len(walk.frames) < MaxDepth
    /\ walk' = [walk EXCEPT
                  !.frames = Append([@ EXCEPT ![Len(@)].stage = "inFormat"],
                                    Frame(TopFrame.err, TRUE, TopFrame.nest + 1)),
                  !.formats = @ \cup {[err |-> TopFrame.err,
                                       isOutermost |-> TopFrame.isOutermost]}]
    /\ UNCHANGED depthOthers

\* The Format method has returned: the entry is collected and the call of
\* formatRecursive returns.
DepthFormatReturns ==
    /\ walk.pc = "run"
    /\ TopFrame.stage = "inFormat"
    /\ walk' = [walk EXCEPT !.frames = SubSeq(@, 1, Len(@) - 1),
                            !.pc = IF Len(walk.frames) = 1 THEN "done" ELSE "run"]
    /\ UNCHANGED depthOthers

NextDepth ==
    \/ DepthStart
    \/ DepthRecurse
    \/ DepthFormatLink
    \/ DepthCallFormat
    \/ DepthFormatReturns

SpecDepth == InitDepth /\ [][NextDepth]_vars /\ WF_vars(NextDepth)

\* The pending calls are those of one render of the chain and of at most
\* one Format method: at most one call per link of the render, Format
\* invoked on a non-outermost leaf only.
DepthBounded ==
    LET n == Len(ChainOf(err))
    IN /\ Len(walk.frames) <= n + 1
       /\ Len(SelectSeq(walk.frames, LAMBDA f : f.nest = 0)) <= n
       /\ \A i \in 1..Len(walk.frames) : walk.frames[i].nest <= 1
       /\ \A e \in 1..n : walk.entered[e] <= 1
       /\ \A c \in walk.formats : ~c.isOutermost /\ UnwrapOnce(c.err) = NIL
       /\ walk.pc = "done" => \A e \in 1..n : walk.entered[e] = 1

MaxWrite == 3      \* bytes handed to one Write call
MaxCalls == 2      \* Write calls for one link

WriteBytes == {"a", NL}

ByteStrings == UNION { [1..n -> WriteBytes] : n \in 0..MaxWrite }

\* The state as formatRecursive resets it before it formats a link.
FreshLinkState(withDetail) ==
    [NewState(Flags("v", withDetail, FALSE)) EXCEPT !.wantDetail = withDetail]

InitWrite ==
    /\ \E d \in BOOLEAN :
          walk = [pc |-> "write", st |-> FreshLinkState(d), written |-> <<>>,
                  calls |-> 0]
    /\ IdleChain /\ RegistryHolds(<<>>) /\ IdleRenders /\ IdleElide /\ IdleReg

\* s.Write(b)
CallWrite ==
    /\ walk.pc = "write"
    /\ walk.calls < MaxCalls
    /\ \E b \in ByteStrings :
          walk' = [walk EXCEPT !.st = Write(@, b), !.written = @ \o b,
                               !.calls = @ + 1]
    /\ UNCHANGED <<heap, err, reference, specialCases, arrays, rs, verbs, pc,
                   callStack, out, reg, elide>>

NextWrite == CallWrite

SpecWrite == InitWrite /\ [][NextWrite]_vars

\* Every newline of t opens a line separator and is followed by a byte that
\* is no newline: "\n" and the next byte in non-detailed mode, "\n  |" in
\* detailed mode.
NewlinesAreSeparators(t, withDetail) ==
    \A i \in 1..Len(t) :
        t[i] = NL =>
            /\ i < Len(t) /\ t[i + 1] # NL
            /\ withDetail =>
                  /\ i + 3 <= Len(t)
                  /\ SubSeq(t, i, i + 3) = SubSeq(detailSep, 1, 4)

EndsClean(t) ==
    /\ ~HasSuffix(t, <<NL>>)
    /\ ~HasSuffix(t, detailSep)
    /\ ~HasSuffix(t, SubSeq(detailSep, 1, 4))

\* C27: whatever Write calls are made for a link, no newline byte reaches
\* the buffers as written: a newline appears only as the start of a line
\* separator in front of a later byte, and neither the head nor the
\* details end with a newline or a continuation separator.
C27_NoTrailingNewline ==
    walk.pc = "write" =>
        /\ NewlinesAreSeparators(walk.st.buf, walk.st.wantDetail)
        /\ ~HasNL(walk.st.headBuf)
        /\ EndsClean(walk.st.buf) /\ EndsClean(walk.st.headBuf)

\* Two Write calls, text then newlines only, the second ending in several
\* newlines, in detailed mode after the switch to the details.
C27_Witness ==
    /\ walk.pc = "write" /\ walk.calls = 2
    /\ walk.st.wantDetail /\ walk.st.hasDetail
    /\ walk.st.needNewline >= 3
    /\ walk.written = <<"a", NL, "a", NL, NL, NL>>
    /\ walk.st.headBuf = <<"a">> /\ walk.st.buf = <<"a">>

\* C28: the buffers after Write(x) and Write(y) are those after the single
\* call Write(x followed by y), in detailed and in non-detailed mode.
C28_WriteSplitInvariant ==
    (walk.pc = "write" /\ walk.calls = 2) =>
        LET one == Write(FreshLinkState(walk.st.wantDetail), walk.written)
        IN walk.st.buf = one.buf /\ walk.st.headBuf = one.headBuf


(***************************************************************************)
(* KhanWrap and the error it is given (specification SpecKhan).            *)
(***************************************************************************)
\* C29: KhanWrap never discards the error it is given: for every non-nil
\* err and every argument list, err is a link of the chain of the result,
\* that is Is(KhanWrap(err, args...), err) holds; KhanWrap(nil, args...)
\* is nil.
C29_KhanWrapKeepsErr ==
    /\ KhanWrapReturned => (walk.result # NIL /\ Is(walk.result, err))
    /\ \A args \in ArgLists : KhanWrap(NIL, args).isNil

\* The same for every err that is not a khanError of UnspecifiedKind.
KhanWrapKeepsSpecifiedErr ==
    (KhanWrapReturned
       /\ ~(heap[err].typ = TKhanError /\ heap[err].kind = UnspecifiedKind))
        => (walk.result # NIL /\ Is(walk.result, err))

====
